---- MODULE Spec2Model ----
(***************************************************************************)
(* Model of the CBC rule engine (cbc/cbc_core.py, run_cbc), of the mapping  *)
(* resolver of the parameter configuration page                            *)
(* (get_best_source_for_target), of the merge of the mapping tables, and   *)
(* of the wide-row reconstructor (db/samples_store.py, load_sample_wide).  *)
(*                                                                         *)
(* A pandas DataFrame is a record [columns, rows]: the sequence of column  *)
(* names (duplicates allowed, as pandas allows them) and the sequence of   *)
(* rows, each row a sequence of cells aligned with the columns.  A Python  *)
(* dict is the sequence of its (key, value) pairs in iteration order.      *)
(***************************************************************************)
EXTENDS Integers, Sequences, FiniteSets, TLC

VARIABLES
    pc,               \* "idle" | "returned" | "raised"
    sample_wide_df,   \* run_cbc argument: the one-row wide frame
    db,               \* the rules database: tables TARGET, EIGENSCHAP, HEEFT
    custom_mappings,  \* run_cbc argument: dict extracted column -> eigenschap
    ret,              \* what run_cbc returned (or the exception it raised)
    target_name,      \* get_best_source_for_target argument
    local_map,        \* get_best_source_for_target argument (dict)
    global_map,       \* get_best_source_for_target argument (dict)
    available_set,    \* get_best_source_for_target argument (set)
    best,             \* what get_best_source_for_target returned
    long_rows,        \* the rows of extracted_samples of the sample, as fetched
    required_cols,    \* load_sample_wide argument
    wide,             \* what load_sample_wide returned
    extracted_samples,          \* samples.db: table extracted_samples
    parameter_mappings,         \* samples.db: table parameter_mappings
    global_parameter_mappings,  \* samples.db: table global_parameter_mappings
    store_calls,      \* the calls that wrote to samples.db so far, with arguments
    selected_samples, \* Analyse page: the (pdf_id, sample_id) pairs selected
    loop_i,           \* Analyse page: the iterations of the loop done
    result_rows,      \* Analyse page: the score rows collected
    matrices,         \* Analyse page: label -> pass/fail matrix
    breakdowns,       \* Analyse page: label -> detail rows
    retries,          \* generate_with_retry argument
    base_delay,       \* generate_with_retry argument
    attempt,          \* generate_with_retry: the loop variable
    calls,            \* the calls of the model made so far, each with its end
    slept,            \* the waits of time.sleep so far, in seconds
    outcome           \* how generate_with_retry ended (kind "" while running)

vars == <<pc, sample_wide_df, db, custom_mappings, ret,
          target_name, local_map, global_map, available_set, best,
          long_rows, required_cols, wide,
          extracted_samples, parameter_mappings, global_parameter_mappings, store_calls,
          selected_samples, loop_i, result_rows, matrices, breakdowns,
          retries, base_delay, attempt, calls, slept, outcome>>

cbcVars == <<sample_wide_df, db, custom_mappings, ret>>
resolveVars == <<target_name, local_map, global_map, available_set, best>>
wideVars == <<long_rows, required_cols, wide>>
storeVars == <<extracted_samples, parameter_mappings, global_parameter_mappings,
               store_calls>>
analyseVars == <<selected_samples, loop_i, result_rows, matrices, breakdowns>>
retryVars == <<retries, base_delay, attempt, calls, slept, outcome>>

(***************************************************************************)
(* Python values.  A cell, a bound or a result is a tagged record so that  *)
(* numbers, None, NaN and text can be told apart and compared.             *)
(***************************************************************************)
Num(n) == [k |-> "num", n |-> n, s |-> ""]
None == [k |-> "none", n |-> 0, s |-> ""]
NaN == [k |-> "nan", n |-> 0, s |-> ""]
Txt(t) == [k |-> "str", n |-> 0, s |-> t]

\* Bounds of the model: the rows of the HEEFT table, the items of a mapping
\* dict, the rows of extracted_samples stored for a sample.
MaxRules == 2
MaxMapLen == 2
MaxLongRows == 2

\* The sentinel run_cbc uses for "missing" (val = -1).
MISSING == -1

RECURSIVE Gcd(_, _)
Gcd(a, b) == IF b = 0 THEN a ELSE Gcd(b, a % b)

\* Python's a / b on non-negative numbers, b > 0, kept exact as a reduced
\* fraction; 0.0 is 0/1.
Div(a, b) == LET g == Gcd(a, b) IN [num |-> a \div g, den |-> b \div g]
Zero == [num |-> 0, den |-> 1]

(***************************************************************************)
(* The rules database.                                                     *)
(***************************************************************************)
TargetRows == << [TargetID |-> 1, Name |-> "Akkerbouw"],
                 [TargetID |-> 2, Name |-> "Natuur"] >>
EigenschapRows == << [EigID |-> 1, Name |-> "pH-waarde"],
                     [EigID |-> 2, Name |-> "Lutum"] >>

\* Bounds of a rule: absent (NULL) or a number.
MinVals == {None, Num(2)}
MaxVals == {None, Num(2)}

\* Weights are non-negative; 0 switches a rule off.
Weights == {0, 1, 2}

HeeftRows == [TargetID : {1, 2}, EigID : {1, 2}, Weight : Weights,
              Min : MinVals, Max : MaxVals]

SeqsUpTo(S, n) == UNION {[1..k -> S] : k \in 0..n}

\* Either no reference data at all, or the two targets and two properties
\* with any rule table of up to MaxRules rules.
RuleDbs ==
    {[TARGET |-> <<>>, EIGENSCHAP |-> <<>>, HEEFT |-> <<>>]}
    \cup {[TARGET |-> TargetRows, EIGENSCHAP |-> EigenschapRows, HEEFT |-> h] :
             h \in SeqsUpTo(HeeftRows, MaxRules)}

(***************************************************************************)
(* Sample frames.                                                          *)
(***************************************************************************)
\* What the pH-waarde column can hold: a number (-1, and below, on and above
\* the rule bound), NaN, or text that float() rejects.
PhCells == {Num(-1), Num(1), Num(2), Num(3), NaN, Txt("abc"), Txt("")}

\* Marks a property that has no column in the frame.
Absent == [k |-> "absent", n |-> 0, s |-> ""]

IdColumns == <<"SampleID", "DateProcessed">>
IdCells == <<Txt("M1"), Txt("2024-01-01")>>

\* The one-row frame with the identity columns and the given property cells.
Frame(ph, lutum) ==
    LET c1 == IF ph = Absent THEN <<>> ELSE <<"pH-waarde">>
        v1 == IF ph = Absent THEN <<>> ELSE <<ph>>
        c2 == IF lutum = Absent THEN <<>> ELSE <<"Lutum">>
        v2 == IF lutum = Absent THEN <<>> ELSE <<lutum>>
    IN  [columns |-> IdColumns \o c1 \o c2, rows |-> <<IdCells \o v1 \o v2>>]

\* pH-waarde with any content or absent beside a measured Lutum, and Lutum
\* absent beside pH-waarde measured or absent.
OneRowFrames ==
    {Frame(ph, Num(2)) : ph \in PhCells \cup {Absent}}
    \cup {Frame(ph, Absent) : ph \in {Num(2), Absent}}

\* A frame with columns and no row, and a one-row frame without SampleID.
ZeroRowFrame == [columns |-> IdColumns \o <<"pH-waarde", "Lutum">>, rows |-> <<>>]
NoIdFrame == [columns |-> <<"pH-waarde">>, rows |-> << <<Num(2)>> >>]

SampleFrames == OneRowFrames \cup {ZeroRowFrame, NoIdFrame}

(***************************************************************************)
(* Frames and dicts.                                                       *)
(***************************************************************************)
\* The positions of the columns named `name` (pandas allows several).
ColumnIdx(df, name) == {i \in 1..Len(df.columns) : df.columns[i] = name}
HasColumn(df, name) == ColumnIdx(df, name) # {}

\* A dict is the sequence of its items [key, value] in iteration order.
DictKeys(d) == {d[i].key : i \in 1..Len(d)}
DictValues(d) == {d[i].value : i \in 1..Len(d)}
DictGet(d, key) == (CHOOSE i \in 1..Len(d) : d[i].key = key)

RECURSIVE KeptIdx(_, _, _)
\* The positions, in order, of the columns whose name is not in `names`.
KeptIdx(columns, names, i) ==
    IF i > Len(columns) THEN <<>>
    ELSE (IF columns[i] \in names THEN <<>> ELSE <<i>>)
         \o KeptIdx(columns, names, i + 1)

\* DataFrame.drop(columns=names): a new frame without those columns.
DropColumns(df, names) ==
    LET keep == KeptIdx(df.columns, names, 1)
    IN  [columns |-> [j \in 1..Len(keep) |-> df.columns[keep[j]]],
         rows |-> [r \in 1..Len(df.rows) |->
                      [j \in 1..Len(keep) |-> df.rows[r][keep[j]]]]]

\* DataFrame.rename(columns=d): a new frame, every column that is a key of
\* d renamed to its value.
RenameColumns(df, d) ==
    [columns |-> [j \in 1..Len(df.columns) |->
                     IF df.columns[j] \in DictKeys(d)
                     THEN d[DictGet(d, df.columns[j])].value
                     ELSE df.columns[j]],
     rows |-> df.rows]

\* Step 0 of run_cbc: drop the columns named like a mapping target, then
\* rename.  An empty dict (or None) is falsy and skips the step.
ApplyMappings(df, mappings) ==
    IF Len(mappings) = 0 THEN df
    ELSE LET collisions == {c \in DictValues(mappings) : HasColumn(df, c)}
             dropped == IF collisions # {} THEN DropColumns(df, collisions)
                        ELSE df
         IN  RenameColumns(dropped, mappings)

\* Mutant of Iloc0: a frame without rows read as one row of missing values.
Iloc0Padded(df) ==
    [exc |-> "",
     row |-> IF Len(df.rows) = 0 THEN [j \in 1..Len(df.columns) |-> NaN]
             ELSE df.rows[1]]

\* sample_wide_df.iloc[0]: the first row, IndexError on a frame without rows.
Iloc0(df) ==
    IF Len(df.rows) = 0 THEN [exc |-> "IndexError", row |-> <<>>]
    ELSE [exc |-> "", row |-> df.rows[1]]

(***************************************************************************)
(* Building the sample dict: EigID -> value, -1 for missing.               *)
(***************************************************************************)
\* Mutant of CoerceCell: text that is no number read as 0 instead of missing.
CoerceCellZero(df, row, name) ==
    LET idx == ColumnIdx(df, name)
    IN  IF Cardinality(idx) # 1 THEN MISSING
        ELSE LET cell == row[CHOOSE i \in idx : TRUE]
             IN  CASE cell.k = "num" -> cell.n
                   [] cell.k = "nan" -> MISSING
                   [] cell.k = "none" -> MISSING
                   [] OTHER -> 0

\* float(row[name]) if pd.notna(row[name]) else -1, inside try/except.
\* Several columns of that name make row[name] a Series, whose truth value
\* raises; text that is no number makes float() raise; both give -1.
CoerceCell(df, row, name) ==
    LET idx == ColumnIdx(df, name)
    IN  IF Cardinality(idx) # 1 THEN MISSING
        ELSE LET cell == row[CHOOSE i \in idx : TRUE]
             IN  CASE cell.k = "num" -> cell.n        \* float(number)
                   [] cell.k = "nan" -> MISSING       \* pd.notna is False
                   [] cell.k = "none" -> MISSING      \* pd.notna is False
                   [] OTHER -> MISSING                \* float(text) raises

\* if name in sample_wide_df.columns: ... else: val = -1
SampleValue(df, row, name) ==
    IF HasColumn(df, name) THEN CoerceCell(df, row, name) ELSE MISSING

\* sample[eig_id] = val for e in eigenschap: the last row of an id wins.
BuildSample(df, row, eigenschap) ==
    [id \in {eigenschap[i].EigID : i \in 1..Len(eigenschap)} |->
        LET last == CHOOSE i \in 1..Len(eigenschap) :
                        /\ eigenschap[i].EigID = id
                        /\ \A j \in (i + 1)..Len(eigenschap) :
                               eigenschap[j].EigID # id
        IN  SampleValue(df, row, eigenschap[last].Name)]

(***************************************************************************)
(* The rule loop.                                                          *)
(***************************************************************************)
NameOf(rows, idField, id) ==
    IF \E i \in 1..Len(rows) : rows[i][idField] = id
    THEN LET last == CHOOSE i \in 1..Len(rows) :
                         /\ rows[i][idField] = id
                         /\ \A j \in (i + 1)..Len(rows) : rows[j][idField] # id
         IN  rows[last].Name
    ELSE "None"

\* Mutant of InRange: an absent bound read as unconstrained on that side.
InRangeOpenEnded(h, s) ==
    /\ (h.Min.k = "num" => h.Min.n <= s)
    /\ (h.Max.k = "num" => s <= h.Max.n)

\* min_val is not None and max_val is not None and min_val <= s <= max_val
InRange(h, s) ==
    /\ h.Min.k = "num"
    /\ h.Max.k = "num"
    /\ h.Min.n <= s
    /\ s <= h.Max.n

\* Passed flag of one rule on sample value s.
Passed(h, s) ==
    IF s = MISSING THEN -1
    ELSE IF InRange(h, s) THEN 1
    ELSE 0

\* Mutant of IsSkipped: zero-weight rules evaluated like the others.
IsSkippedNever(h) == FALSE

\* if weight == 0: continue
IsSkipped(h) == h.Weight = 0

\* Mutant of CountsInMax: every evaluated rule counted, missing or not.
CountsInMaxAlways(h, s) == TRUE

\* Mutant of CountsInMax: the weight counted in the else branch only.
CountsInMaxOnFail(h, s) == s # MISSING /\ ~InRange(h, s)

\* if s != -1: target_max[tid] += weight
CountsInMax(h, s) == s # MISSING

\* One iteration of `for h in heeft`.  acc holds target_scores, target_max,
\* pass_fail_matrix and the exception raised so far ("" for none).
EvalRule(h, sample, db_, acc) ==
    IF acc.exc # "" \/ IsSkipped(h) THEN acc
    ELSE
      LET tid == h.TargetID
          s == IF h.EigID \in DOMAIN sample THEN sample[h.EigID] ELSE MISSING
          passed == Passed(h, s)
          touches == passed = 1 \/ CountsInMax(h, s)
      IN  IF touches /\ tid \notin DOMAIN acc.target_scores
          THEN [acc EXCEPT !.exc = "KeyError"]
          ELSE
            [exc |-> "",
             target_scores |->
                 IF passed = 1
                 THEN [acc.target_scores EXCEPT ![tid] = @ + h.Weight]
                 ELSE acc.target_scores,
             target_max |->
                 IF CountsInMax(h, s)
                 THEN [acc.target_max EXCEPT ![tid] = @ + h.Weight]
                 ELSE acc.target_max,
             pass_fail_matrix |-> Append(acc.pass_fail_matrix,
                 [TargetID |-> h.TargetID,
                  EigID |-> h.EigID,
                  TargetName |-> NameOf(db_.TARGET, "TargetID", tid),
                  EigName |-> NameOf(db_.EIGENSCHAP, "EigID", h.EigID),
                  SampleValue |-> s,
                  Min |-> h.Min,
                  Max |-> h.Max,
                  Weight |-> h.Weight,
                  Passed |-> passed])]

RECURSIVE EvalRules(_, _, _, _, _)
EvalRules(heeft, i, sample, db_, acc) ==
    IF i > Len(heeft) THEN acc
    ELSE EvalRules(heeft, i + 1, sample, db_, EvalRule(heeft[i], sample, db_, acc))

\* Mutant of Score: a target without applicable rules scored 1.0.
ScoreOneWhenEmpty(numer, denom) ==
    IF denom > 0 THEN Div(numer, denom) ELSE [num |-> 1, den |-> 1]

\* (target_scores[tid] / denom) if denom > 0 else 0.0
Score(numer, denom) == IF denom > 0 THEN Div(numer, denom) ELSE Zero

\* results[t["Name"]] for t in target: the last target of a name wins.
Results(target, acc) ==
    [nm \in {target[i].Name : i \in 1..Len(target)} |->
        LET last == CHOOSE i \in 1..Len(target) :
                        /\ target[i].Name = nm
                        /\ \A j \in (i + 1)..Len(target) : target[j].Name # nm
            tid == target[last].TargetID
        IN  Score(acc.target_scores[tid], acc.target_max[tid])]

(***************************************************************************)
(* run_cbc.                                                                *)
(***************************************************************************)
EmptyFn == [x \in {} |-> 0]

\* The names a pivot groups on: a row whose name is None is left out.
PivotNames(rows, field) ==
    {rows[i][field] : i \in 1..Len(rows)} \ {"None"}

\* Mutant of compact_matrix: the cells without a rule filled with 0.
compact_matrix_fill0(rows) ==
    [cell \in PivotNames(rows, "EigName") \X PivotNames(rows, "TargetName") |->
        LET hits == {i \in 1..Len(rows) : /\ rows[i].EigName = cell[1]
                                           /\ rows[i].TargetName = cell[2]}
        IN  IF hits = {} THEN 0
            ELSE rows[CHOOSE i \in hits : \A j \in hits : i <= j].Passed]

\* pass_fail_df.pivot_table(index="EigName", columns="TargetName",
\* values="Passed", aggfunc="first").fillna(-1).astype(int): one cell per
\* (property name, target name) of the names that occur, holding the Passed
\* of the first row of that pair, -1 where the pair has no row.  Without
\* rows the matrix is the empty frame.
compact_matrix(rows) ==
    [cell \in PivotNames(rows, "EigName") \X PivotNames(rows, "TargetName") |->
        LET hits == {i \in 1..Len(rows) : /\ rows[i].EigName = cell[1]
                                           /\ rows[i].TargetName = cell[2]}
        IN  IF hits = {} THEN -1
            ELSE rows[CHOOSE i \in hits : \A j \in hits : i <= j].Passed]

Raise(e) == [exc |-> e, results |-> EmptyFn, SampleID |-> None,
             DateProcessed |-> None, matrix |-> EmptyFn, detail |-> <<>>,
             sample |-> EmptyFn,
             target_scores |-> EmptyFn, target_max |-> EmptyFn]

run_cbc(df_in, db_, mappings) ==
    LET df == ApplyMappings(df_in, mappings)
        target == db_.TARGET
        eigenschap == db_.EIGENSCHAP
        heeft == db_.HEEFT
        first == Iloc0(df)
        row == first.row
    IN  IF first.exc # "" THEN Raise(first.exc)
        ELSE
          LET sample == BuildSample(df, row, eigenschap)
              tids == {target[i].TargetID : i \in 1..Len(target)}
              acc0 == [exc |-> "",
                       target_scores |-> [t \in tids |-> 0],
                       target_max |-> [t \in tids |-> 0],
                       pass_fail_matrix |-> <<>>]
              acc == EvalRules(heeft, 1, sample, db_, acc0)
          IN  IF acc.exc # "" THEN Raise(acc.exc)
              ELSE IF ~HasColumn(df, "SampleID") \/ ~HasColumn(df, "DateProcessed")
              THEN Raise("KeyError")        \* sample_wide_df.loc[0, "SampleID"]
              ELSE [exc |-> "",
                    results |-> Results(target, acc),
                    SampleID |-> row[CHOOSE i \in ColumnIdx(df, "SampleID") : TRUE],
                    DateProcessed |-> row[CHOOSE i \in ColumnIdx(df, "DateProcessed") : TRUE],
                    matrix |-> compact_matrix(acc.pass_fail_matrix),
                    detail |-> acc.pass_fail_matrix,
                    sample |-> sample,
                    target_scores |-> acc.target_scores,
                    target_max |-> acc.target_max]

NoResult == Raise("not called")

(***************************************************************************)
(* The engine as a state machine: a call of run_cbc on any sample frame    *)
(* and any rules database.                                                 *)
(***************************************************************************)
\* load_sample_wide not called: nothing fetched, nothing returned.
NotLoaded == [state |-> "not called", columns |-> <<>>, rows |-> <<>>]

WideIdle ==
    /\ long_rows = <<>>
    /\ required_cols = <<>>
    /\ wide = NotLoaded

\* samples.db empty, the Analyse page and generate_with_retry not running.
StoreIdle ==
    /\ extracted_samples = <<>>
    /\ parameter_mappings = <<>>
    /\ global_parameter_mappings = <<>>
    /\ store_calls = <<>>

AnalyseIdle ==
    /\ selected_samples = <<>>
    /\ loop_i = 0
    /\ result_rows = <<>>
    /\ matrices = <<>>
    /\ breakdowns = <<>>

RetryIdle ==
    /\ retries = 0
    /\ base_delay = 0
    /\ attempt = 0
    /\ calls = <<>>
    /\ slept = <<>>
    /\ outcome = [kind |-> "", response |-> "", error |-> <<>>]

ResolveIdle ==
    /\ target_name = ""
    /\ local_map = <<>>
    /\ global_map = <<>>
    /\ available_set = {}
    /\ best = <<None, "not called">>

InitCbc ==
    /\ pc = "idle"
    /\ StoreIdle /\ AnalyseIdle /\ RetryIdle
    /\ sample_wide_df \in SampleFrames
    /\ db \in RuleDbs
    /\ custom_mappings = <<>>
    /\ ret = NoResult
    /\ ResolveIdle
    /\ WideIdle

CallRunCbc ==
    /\ pc = "idle"
    /\ ret' = run_cbc(sample_wide_df, db, custom_mappings)
    /\ pc' = IF ret'.exc = "" THEN "returned" ELSE "raised"
    /\ UNCHANGED <<sample_wide_df, db, custom_mappings>>
    /\ UNCHANGED resolveVars
    /\ UNCHANGED wideVars
    /\ UNCHANGED <<storeVars, analyseVars, retryVars>>

NextCbc == CallRunCbc

Spec == InitCbc /\ [][NextCbc]_vars

\* The same call on three samples (both properties measured, Lutum without
\* a column, pH-waarde a NaN placeholder) and any rules database.
DetailFrames == {Frame(Num(2), Num(2)), Frame(Num(2), Absent), Frame(NaN, Num(2))}

InitDetail ==
    /\ pc = "idle"
    /\ StoreIdle /\ AnalyseIdle /\ RetryIdle
    /\ sample_wide_df \in DetailFrames
    /\ db \in RuleDbs
    /\ custom_mappings = <<>>
    /\ ret = NoResult
    /\ ResolveIdle
    /\ WideIdle

SpecDetail == InitDetail /\ [][NextCbc]_vars

(***************************************************************************)
(* The mapping resolver of the parameter configuration page.               *)
(***************************************************************************)
Sources == {"Zink (mg/kg)", "Lood (mg/kg)", "Koper"}
Props == {"Zware metalen", "pH-waarde"}

\* The dicts source -> target of up to n items: keys are unique.
Dicts(n) ==
    {d \in SeqsUpTo([key : Sources, value : Props], n) :
        \A i, j \in 1..Len(d) : d[i].key = d[j].key => i = j}

\* Mutant of Candidates: the matching sources in reverse iteration order.
CandidatesReversed(name, map) ==
    LET hit(item) == item.value = name
        hits == SelectSeq(map, hit)
    IN  [i \in 1..Len(hits) |-> hits[Len(hits) + 1 - i].key]

\* The sources of the items of a dict whose target is the requested name, in
\* iteration order: the local scan returns the first of them, and
\* [source for source, target in global_map.items() if target == target_name]
Candidates(name, map) ==
    LET hit(item) == item.value = name
        hits == SelectSeq(map, hit)
    IN  [i \in 1..Len(hits) |-> hits[i].key]

\* Mutant of MatchesInPdf: the candidates not restricted to the sample.
MatchesInPdfUnfiltered(candidates, available) == candidates

\* [c for c in candidates if c in available_set]
MatchesInPdf(candidates, available) ==
    LET present(c) == c \in available
    IN  SelectSeq(candidates, present)

\* Mutant of get_best_source_for_target: a present global source preferred
\* to the local one.
get_best_source_global_first(name, lmap, gmap, available) ==
    LET locals == Candidates(name, lmap)
        matches_in_pdf == MatchesInPdf(Candidates(name, gmap), available)
    IN  IF Len(matches_in_pdf) > 0 THEN <<Txt(matches_in_pdf[1]), "Global">>
        ELSE IF Len(locals) > 0 THEN <<Txt(locals[1]), "Manual">>
        ELSE <<None, "None">>

get_best_source_for_target(name, lmap, gmap, available) ==
    LET locals == Candidates(name, lmap)
        matches_in_pdf == MatchesInPdf(Candidates(name, gmap), available)
    IN  IF Len(locals) > 0 THEN <<Txt(locals[1]), "Manual">>
        ELSE IF Len(matches_in_pdf) > 0 THEN <<Txt(matches_in_pdf[1]), "Global">>
        ELSE <<None, "None">>

CbcIdle ==
    /\ sample_wide_df = ZeroRowFrame
    /\ db = [TARGET |-> <<>>, EIGENSCHAP |-> <<>>, HEEFT |-> <<>>]
    /\ custom_mappings = <<>>
    /\ ret = NoResult

InitResolve ==
    /\ pc = "idle"
    /\ StoreIdle /\ AnalyseIdle /\ RetryIdle
    /\ target_name \in Props
    /\ local_map \in Dicts(MaxMapLen)
    /\ global_map \in Dicts(MaxMapLen)
    /\ available_set \in SUBSET Sources
    /\ best = <<None, "not called">>
    /\ CbcIdle
    /\ WideIdle

CallResolve ==
    /\ pc = "idle"
    /\ best' = get_best_source_for_target(target_name, local_map, global_map,
                                          available_set)
    /\ pc' = "returned"
    /\ UNCHANGED <<target_name, local_map, global_map, available_set>>
    /\ UNCHANGED cbcVars
    /\ UNCHANGED wideVars
    /\ UNCHANGED <<storeVars, analyseVars, retryVars>>

NextResolve == CallResolve

SpecResolve == InitResolve /\ [][NextResolve]_vars

(***************************************************************************)
(* Properties of run_cbc.  What the specification calls passed, applicable *)
(* and missing is stated here from the inputs, apart from the engine's     *)
(* loop.                                                                   *)
(***************************************************************************)
Returned == pc = "returned"

RECURSIVE SumWeights(_, _)
\* The sum of the weights of the rules of `heeft` at the positions in `at`.
SumWeights(heeft, at) ==
    IF at = {} THEN 0
    ELSE LET j == CHOOSE x \in at : TRUE
         IN  heeft[j].Weight + SumWeights(heeft, at \ {j})

\* The engine's value of a rule's property: missing when it is the sentinel.
ValueFor(h) ==
    IF h.EigID \in DOMAIN ret.sample THEN ret.sample[h.EigID] ELSE MISSING

\* Both bounds defined and min <= v <= max.
Within(h, v) ==
    /\ h.Min # None
    /\ h.Max # None
    /\ ~(v < h.Min.n)
    /\ ~(v > h.Max.n)

\* The nonzero-weight rules of a target whose property value is not missing,
\* and those of them that passed.
ApplicableRules(tid) ==
    {j \in 1..Len(db.HEEFT) :
        /\ db.HEEFT[j].TargetID = tid
        /\ db.HEEFT[j].Weight # 0
        /\ ValueFor(db.HEEFT[j]) # MISSING}

PassedRules(tid) ==
    {j \in ApplicableRules(tid) : Within(db.HEEFT[j], ValueFor(db.HEEFT[j]))}

RulesOf(tid) == {j \in 1..Len(db.HEEFT) : db.HEEFT[j].TargetID = tid}

\* C1: for every target the score is (weights of its passed nonzero-weight
\* rules) / (weights of its nonzero-weight rules with a non-missing value),
\* and exactly 0.0 when that denominator is 0.
C1_ScoreIsWeightedFraction ==
    Returned =>
        \A i \in 1..Len(db.TARGET) :
            LET t == db.TARGET[i]
                n == SumWeights(db.HEEFT, PassedRules(t.TargetID))
                d == SumWeights(db.HEEFT, ApplicableRules(t.TargetID))
                score == ret.results[t.Name]
            IN  IF d = 0 THEN score.num = 0 /\ score.den = 1
                ELSE score.den > 0 /\ score.num * d = n * score.den

\* A target scoring 1/3 (a weight-1 rule passed, a weight-2 rule failed)
\* beside a target with no rule at all, scoring 0.0.
C1_Witness ==
    /\ Returned
    /\ Len(db.TARGET) = 2
    /\ ret.results["Akkerbouw"] = [num |-> 1, den |-> 3]
    /\ RulesOf(2) = {}
    /\ ret.results["Natuur"] = [num |-> 0, den |-> 1]

\* A property is missing in the sample: no such column, or no number in it.
CellMissing(name) ==
    \/ ~HasColumn(sample_wide_df, name)
    \/ Len(sample_wide_df.rows) = 0
    \/ \A i \in ColumnIdx(sample_wide_df, name) :
           sample_wide_df.rows[1][i].k # "num"

EigNameOf(h) == NameOf(db.EIGENSCHAP, "EigID", h.EigID)

OnMissingProperty(h) == CellMissing(EigNameOf(h))

\* The database with the rules satisfying Drop(_) taken out of HEEFT.
WithoutRules(Drop(_)) ==
    LET keep(h) == ~Drop(h)
    IN  [db EXCEPT !.HEEFT = SelectSeq(db.HEEFT, keep)]

\* The detail row k records rule h.
RecordsRule(k, h) ==
    /\ ret.detail[k].TargetID = h.TargetID
    /\ ret.detail[k].EigID = h.EigID
    /\ ret.detail[k].Weight = h.Weight
    /\ ret.detail[k].Min = h.Min
    /\ ret.detail[k].Max = h.Max

\* C2: a rule whose property is missing in the sample is recorded with
\* Passed = -1 and its weight enters neither the numerator nor the
\* denominator of its target: the accumulators and scores are those of the
\* same evaluation without these rules.
C2_MissingRuleExcluded ==
    Returned =>
        /\ \A j \in 1..Len(db.HEEFT) :
               (db.HEEFT[j].Weight # 0 /\ OnMissingProperty(db.HEEFT[j])) =>
                   /\ \E k \in 1..Len(ret.detail) : RecordsRule(k, db.HEEFT[j])
                   /\ \A k \in 1..Len(ret.detail) :
                          RecordsRule(k, db.HEEFT[j]) => ret.detail[k].Passed = -1
        /\ LET other == run_cbc(sample_wide_df, WithoutRules(OnMissingProperty),
                                custom_mappings)
           IN  /\ other.target_scores = ret.target_scores
               /\ other.target_max = ret.target_max
               /\ other.results = ret.results

\* Two weight-1 rules of one target, pH-waarde in range and Lutum missing:
\* the score is 1/1, not 1/2.
C2_Witness ==
    /\ Returned
    /\ Len(db.HEEFT) = 2
    /\ \A j \in 1..2 : db.HEEFT[j].TargetID = 1 /\ db.HEEFT[j].Weight = 1
    /\ db.HEEFT[1].EigID = 1
    /\ db.HEEFT[2].EigID = 2
    /\ ~CellMissing("pH-waarde")
    /\ CellMissing("Lutum")
    /\ ret.detail[1].Passed = 1
    /\ ret.detail[2].Passed = -1
    /\ ret.target_max[1] = 1
    /\ ret.results["Akkerbouw"] = [num |-> 1, den |-> 1]

ZeroWeight(h) == h.Weight = 0

\* C3: a rule with Weight = 0 is skipped entirely: the evaluation returns
\* what it returns without the zero-weight rules (numerators, denominators,
\* scores and detail rows), and no detail row has weight 0.
C3_ZeroWeightSkipped ==
    Returned =>
        /\ run_cbc(sample_wide_df, WithoutRules(ZeroWeight), custom_mappings) = ret
        /\ \A k \in 1..Len(ret.detail) : ret.detail[k].Weight # 0

\* A zero-weight rule whose value is in its range, beside a rule that counts.
C3_Witness ==
    /\ Returned
    /\ \E j \in 1..Len(db.HEEFT) :
           /\ db.HEEFT[j].Weight = 0
           /\ Within(db.HEEFT[j], ValueFor(db.HEEFT[j]))
           /\ ValueFor(db.HEEFT[j]) # MISSING
    /\ \E j \in 1..Len(db.HEEFT) : db.HEEFT[j].Weight # 0
    /\ Len(ret.detail) = 1

NonZeroWeight(h) == h.Weight # 0

\* The rules run_cbc evaluates, in table order.
NonZeroRules == SelectSeq(db.HEEFT, NonZeroWeight)

\* C4: a nonzero-weight rule is recorded Passed = -1 and left out of the
\* denominator if and only if its property is absent or non-numeric in the
\* sample; a property holding a number, whatever the number, is evaluated
\* against the range (Passed 0 or 1) and counts toward the denominator.
C4_MissingIffAbsentOrNonNumeric ==
    Returned =>
        /\ \A k \in 1..Len(ret.detail) :
               /\ ret.detail[k].Passed = -1 <=> CellMissing(ret.detail[k].EigName)
               /\ ~CellMissing(ret.detail[k].EigName) => ret.detail[k].Passed \in {0, 1}
        /\ \A i \in 1..Len(db.TARGET) :
               ret.target_max[db.TARGET[i].TargetID] =
                   SumWeights(NonZeroRules,
                              {k \in 1..Len(NonZeroRules) :
                                  /\ NonZeroRules[k].TargetID = db.TARGET[i].TargetID
                                  /\ ~OnMissingProperty(NonZeroRules[k])})

\* C5: for a nonzero-weight rule whose value v is not missing, Passed = 1
\* exactly when Min and Max are both defined and Min <= v <= Max, and
\* Passed = 0 otherwise; the numerator of a target is the weight of its
\* passed rules and the denominator the weight of its rules with a value.
C5_PassedIffWithinBothBounds ==
    Returned =>
        /\ Len(ret.detail) = Len(NonZeroRules)
        /\ \A k \in 1..Len(ret.detail) :
               LET h == NonZeroRules[k]
                   v == ValueFor(h)
               IN  /\ RecordsRule(k, h)
                   /\ ret.detail[k].SampleValue = v
                   /\ v # MISSING =>
                          /\ ret.detail[k].Passed = 1 <=> Within(h, v)
                          /\ ret.detail[k].Passed # 1 => ret.detail[k].Passed = 0
        /\ \A i \in 1..Len(db.TARGET) :
               LET tid == db.TARGET[i].TargetID
                   valued == {k \in 1..Len(NonZeroRules) :
                                 /\ NonZeroRules[k].TargetID = tid
                                 /\ ValueFor(NonZeroRules[k]) # MISSING}
                   within == {k \in valued :
                                 Within(NonZeroRules[k], ValueFor(NonZeroRules[k]))}
               IN  /\ ret.target_scores[tid] = SumWeights(NonZeroRules, within)
                   /\ ret.target_max[tid] = SumWeights(NonZeroRules, valued)

\* A rule on its bounds (Min = v = Max) that passed, and a rule without a
\* Min whose value is below its Max, which failed.
C5_Witness ==
    /\ Returned
    /\ Len(ret.detail) = 2
    /\ ret.detail[1].Min = Num(2)
    /\ ret.detail[1].Max = Num(2)
    /\ ret.detail[1].SampleValue = 2
    /\ ret.detail[1].Passed = 1
    /\ ret.detail[2].Min = None
    /\ ret.detail[2].Max = Num(2)
    /\ ret.detail[2].SampleValue = 1
    /\ ret.detail[2].Passed = 0
    /\ ret.detail[2].TargetID = ret.detail[1].TargetID
    /\ ret.target_max[ret.detail[1].TargetID] = ret.detail[1].Weight + ret.detail[2].Weight
    /\ ret.target_scores[ret.detail[1].TargetID] = ret.detail[1].Weight

\* C6: with non-negative weights every target's score is a fraction in
\* [0, 1]: 0 <= numerator <= denominator.
C6_ScoreWithinUnitInterval ==
    Returned =>
        \A i \in 1..Len(db.TARGET) :
            LET tid == db.TARGET[i].TargetID
                score == ret.results[db.TARGET[i].Name]
            IN  /\ 0 <= ret.target_scores[tid]
                /\ ret.target_scores[tid] <= ret.target_max[tid]
                /\ score.den > 0
                /\ 0 <= score.num
                /\ score.num <= score.den

\* Both rules of a target passed, with weights 1 and 2: the score reaches 1.
C6_Witness ==
    /\ Returned
    /\ Len(db.TARGET) = 2
    /\ ret.target_scores[2] = 3
    /\ ret.target_max[2] = 3
    /\ ret.results["Natuur"] = [num |-> 1, den |-> 1]

HasIdColumns ==
    /\ HasColumn(sample_wide_df, "SampleID")
    /\ HasColumn(sample_wide_df, "DateProcessed")

\* C7: on a one-row sample run_cbc does not raise, whatever the property
\* columns hold: an absent, empty or non-numeric value becomes the missing
\* sentinel of its own property, a number is kept, every target gets a
\* score and every nonzero-weight rule a detail row.
C7_BadValuesDegradeToMissing ==
    (pc # "idle" /\ Len(sample_wide_df.rows) > 0 /\ HasIdColumns) =>
        /\ Returned
        /\ \A i \in 1..Len(db.EIGENSCHAP) :
               LET e == db.EIGENSCHAP[i]
               IN  IF CellMissing(e.Name) THEN ret.sample[e.EigID] = MISSING
                   ELSE \A c \in ColumnIdx(sample_wide_df, e.Name) :
                            ret.sample[e.EigID] = sample_wide_df.rows[1][c].n
        /\ DOMAIN ret.results = {db.TARGET[i].Name : i \in 1..Len(db.TARGET)}
        /\ Len(ret.detail) = Len(NonZeroRules)

\* pH-waarde holds text, Lutum a number: the rule on pH-waarde is missing and
\* the rule on Lutum is evaluated.
C7_Witness ==
    /\ Returned
    /\ HasColumn(sample_wide_df, "pH-waarde")
    /\ \A c \in ColumnIdx(sample_wide_df, "pH-waarde") :
           sample_wide_df.rows[1][c] = Txt("abc")
    /\ ~CellMissing("Lutum")
    /\ Len(ret.detail) = 2
    /\ ret.detail[1].EigName = "pH-waarde"
    /\ ret.detail[1].Passed = -1
    /\ ret.detail[2].EigName = "Lutum"
    /\ ret.detail[2].Passed = 1

NoRulesLoaded ==
    Len(db.TARGET) = 0 /\ Len(db.EIGENSCHAP) = 0 /\ Len(db.HEEFT) = 0

\* C8 as stated: run_cbc raises when the sample table has zero rows and when
\* no reference rules are loaded (empty rule tables).
C8_StructuralInputRaises ==
    (pc # "idle" /\ (Len(sample_wide_df.rows) = 0 \/ NoRulesLoaded)) =>
        pc = "raised"

\* C8 as amended: run_cbc raises when the sample table has zero rows; with
\* an empty rule table and a one-row sample it returns: every target of the
\* TARGET table scores 0.0 and the detail table is empty.
C8_ZeroRowsRaiseNoRulesReturn ==
    pc # "idle" =>
        /\ Len(sample_wide_df.rows) = 0 =>
               pc = "raised" /\ ret.exc = "IndexError"
        /\ (Len(sample_wide_df.rows) > 0 /\ HasIdColumns /\ Len(db.HEEFT) = 0) =>
               /\ Returned
               /\ ret.detail = <<>>
               /\ DOMAIN ret.results = {db.TARGET[i].Name : i \in 1..Len(db.TARGET)}
               /\ \A nm \in DOMAIN ret.results :
                      ret.results[nm] = [num |-> 0, den |-> 1]
               /\ ret.SampleID = Txt("M1")

\* A one-row sample evaluated with all three rule tables empty.
C8_Witness ==
    /\ Returned
    /\ NoRulesLoaded
    /\ Len(sample_wide_df.rows) = 1
    /\ DOMAIN ret.results = {}

(***************************************************************************)
(* Properties of get_best_source_for_target.                               *)
(***************************************************************************)
HasLocalEntry ==
    \E i \in 1..Len(local_map) : local_map[i].value = target_name

\* C9: when the local map has an entry for the requested property, the
\* result is a source of such a local entry with the local origin
\* ("Manual"), whatever the global map and the available set hold.
C9_LocalEntryWins ==
    (Returned /\ HasLocalEntry) =>
        /\ best[2] = "Manual"
        /\ \E i \in 1..Len(local_map) :
               /\ local_map[i].value = target_name
               /\ best[1] = Txt(local_map[i].key)

\* Global Lood and local Zink both map to "Zware metalen"; only Lood is in
\* the sample: the resolver returns Zink.
C9_Witness ==
    /\ Returned
    /\ target_name = "Zware metalen"
    /\ global_map = <<[key |-> "Lood (mg/kg)", value |-> "Zware metalen"]>>
    /\ local_map = <<[key |-> "Zink (mg/kg)", value |-> "Zware metalen"]>>
    /\ available_set = {"Lood (mg/kg)"}
    /\ best = <<Txt("Zink (mg/kg)"), "Manual">>

PresentGlobal(i) ==
    /\ global_map[i].value = target_name
    /\ global_map[i].key \in available_set

\* C10: with no local entry for the property, a returned source is a global
\* source that maps to the property and is in the available set; with no
\* such global entry the result is (None, "None").
C10_GlobalOnlyIfPresent ==
    (Returned /\ ~HasLocalEntry) =>
        /\ best[2] \in {"Global", "None"}
        /\ best[2] = "Global" =>
               \E i \in 1..Len(global_map) :
                   PresentGlobal(i) /\ best[1] = Txt(global_map[i].key)
        /\ best[2] = "None" => best[1] = None
        /\ (\E i \in 1..Len(global_map) : PresentGlobal(i)) <=> best[2] = "Global"

\* The global source of the property is not in the sample (another
\* parameter is): no mapping.
C10_Witness ==
    /\ Returned
    /\ target_name = "Zware metalen"
    /\ global_map = <<[key |-> "Lood (mg/kg)", value |-> "Zware metalen"]>>
    /\ local_map = <<[key |-> "Koper", value |-> "pH-waarde"]>>
    /\ available_set = {"Zink (mg/kg)", "Koper"}
    /\ best = <<None, "None">>

\* The first item of a dict, in iteration order, that satisfies a condition
\* given as the set of the positions that satisfy it.
FirstOf(positions) == CHOOSE i \in positions : \A j \in positions : i <= j

LocalHits == {i \in 1..Len(local_map) : local_map[i].value = target_name}
PresentGlobalHits == {i \in 1..Len(global_map) : PresentGlobal(i)}

\* The inputs of the resolver are the same after every step.
ResolverInputsKept ==
    /\ target_name' = target_name
    /\ local_map' = local_map
    /\ global_map' = global_map
    /\ available_set' = available_set

\* C11: get_best_source_for_target changes neither map nor the available
\* set, and its result is a function of its inputs: with one or several
\* local entries for the property it returns the first of them in iteration
\* order, otherwise with one or several present global entries the first of
\* those, otherwise (None, "None"); it raises in no case.
C11_FirstMatchAndInputsKept ==
    /\ [](Returned =>
            /\ LocalHits # {} =>
                   best = <<Txt(local_map[FirstOf(LocalHits)].key), "Manual">>
            /\ (LocalHits = {} /\ PresentGlobalHits # {}) =>
                   best = <<Txt(global_map[FirstOf(PresentGlobalHits)].key),
                            "Global">>
            /\ (LocalHits = {} /\ PresentGlobalHits = {}) =>
                   best = <<None, "None">>)
    /\ [][ResolverInputsKept]_vars

\* Two local entries for the same property, Lood before Zink: the resolver
\* returned Lood.
C11_Witness ==
    /\ Returned
    /\ target_name = "Zware metalen"
    /\ local_map = <<[key |-> "Lood (mg/kg)", value |-> "Zware metalen"],
                     [key |-> "Zink (mg/kg)", value |-> "Zware metalen"]>>
    /\ best = <<Txt("Lood (mg/kg)"), "Manual">>

(***************************************************************************)
(* The engine behind the mapping tables: the Analyse page merges the       *)
(* global and the PDF-local mappings and hands the merged dict to run_cbc. *)
(***************************************************************************)
MapSources == {"pH (KCl)", "pH (H2O)"}
Canonicals == {"pH-waarde", "Lutum"}

\* The content of a mapping table read into a dict: source_param is the
\* (rest of the) primary key, so keys are unique.
MapDicts ==
    {d \in SeqsUpTo([key : MapSources, value : Canonicals], MaxMapLen) :
        \A i, j \in 1..Len(d) : d[i].key = d[j].key => i = j}

\* The one-row frame of a sample with the extracted columns pH (KCl) and
\* pH (H2O) and the canonical columns pH-waarde and Lutum, each one present
\* with the given cell or absent.
MapFrame(kcl, h2o, ph, lutum) ==
    LET col(name, cell) == IF cell = Absent THEN <<>> ELSE <<name>>
        val(cell) == IF cell = Absent THEN <<>> ELSE <<cell>>
    IN  [columns |-> IdColumns \o col("pH (KCl)", kcl) \o col("pH (H2O)", h2o)
                        \o col("pH-waarde", ph) \o col("Lutum", lutum),
         rows |-> <<IdCells \o val(kcl) \o val(h2o) \o val(ph) \o val(lutum)>>]

\* pH (KCl) measures 1 and pH (H2O) 2 where extracted; the canonical
\* pH-waarde is absent, a NaN placeholder or measures 3; Lutum measures 2.
MapFrames ==
    {MapFrame(kcl, h2o, ph, lutum) :
        kcl \in {Absent, Num(1)}, h2o \in {Absent, Num(2)},
        ph \in {Absent, NaN, Num(3)}, lutum \in {Absent, Num(2)}}

\* One target with a rule on each property: both pass on the value 2 only.
MapDb ==
    [TARGET |-> TargetRows, EIGENSCHAP |-> EigenschapRows,
     HEEFT |-> << [TargetID |-> 1, EigID |-> 1, Weight |-> 1,
                   Min |-> Num(2), Max |-> Num(2)],
                  [TargetID |-> 1, EigID |-> 2, Weight |-> 2,
                   Min |-> Num(2), Max |-> Num(2)] >>]

\* {**global_map, **local_map}: the items of global_map in their order, a
\* key of local_map taking the local value, then the other local items.
get_combined_mappings(gmap, lmap) ==
    LET over(item) == IF item.key \in DictKeys(lmap)
                      THEN lmap[DictGet(lmap, item.key)]
                      ELSE item
        fresh(item) == item.key \notin DictKeys(gmap)
    IN  [i \in 1..Len(gmap) |-> over(gmap[i])] \o SelectSeq(lmap, fresh)

\* Mutant of CallerFrameAfter: drop and rename done in place.
CallerFrameInPlace(df, mappings) == ApplyMappings(df, mappings)

\* The caller's frame after a call: drop() and rename() return new frames
\* that run_cbc binds to its own local name.
CallerFrameAfter(df, mappings) == df

InitMap ==
    /\ pc = "idle"
    /\ StoreIdle /\ AnalyseIdle /\ RetryIdle
    /\ sample_wide_df \in MapFrames
    /\ db = MapDb
    /\ custom_mappings = <<>>
    /\ ret = NoResult
    /\ global_map \in MapDicts
    /\ local_map \in MapDicts
    /\ target_name = ""
    /\ available_set = {}
    /\ best = <<None, "not called">>
    /\ WideIdle

\* combined_mappings = get_combined_mappings(samples_conn, user_id, pdf_id)
GetCombinedMappings ==
    /\ pc = "idle"
    /\ custom_mappings' = get_combined_mappings(global_map, local_map)
    /\ pc' = "mapped"
    /\ UNCHANGED <<sample_wide_df, db, ret>>
    /\ UNCHANGED resolveVars
    /\ UNCHANGED wideVars
    /\ UNCHANGED <<storeVars, analyseVars, retryVars>>

\* run_cbc(wide, db_conn, custom_mappings=combined_mappings)
RunCbcMapped ==
    /\ pc = "mapped"
    /\ ret' = run_cbc(sample_wide_df, db, custom_mappings)
    /\ sample_wide_df' = CallerFrameAfter(sample_wide_df, custom_mappings)
    /\ pc' = IF ret'.exc = "" THEN "returned" ELSE "raised"
    /\ UNCHANGED <<db, custom_mappings>>
    /\ UNCHANGED resolveVars
    /\ UNCHANGED wideVars
    /\ UNCHANGED <<storeVars, analyseVars, retryVars>>

\* A second call of run_cbc with the caller's frame, rules and mapping.
RunCbcAgain ==
    /\ pc = "returned"
    /\ ret' = run_cbc(sample_wide_df, db, custom_mappings)
    /\ sample_wide_df' = CallerFrameAfter(sample_wide_df, custom_mappings)
    /\ pc' = "again"
    /\ UNCHANGED <<db, custom_mappings>>
    /\ UNCHANGED resolveVars
    /\ UNCHANGED wideVars
    /\ UNCHANGED <<storeVars, analyseVars, retryVars>>

NextMap == GetCombinedMappings \/ RunCbcMapped \/ RunCbcAgain

SpecMap == InitMap /\ [][NextMap]_vars

(***************************************************************************)
(* Properties of the engine behind the mapping tables.                     *)
(***************************************************************************)
EigIdOf(name) ==
    EigenschapRows[CHOOSE i \in 1..Len(EigenschapRows) :
                       EigenschapRows[i].Name = name].EigID

\* The number in the cell of the only column of that name.
CellNumber(df, name) ==
    df.rows[1][CHOOSE i \in ColumnIdx(df, name) : TRUE].n

\* The local map holds exactly one entry for the property, from source src.
OnlyLocalSource(src, prop) ==
    /\ \E i \in 1..Len(local_map) :
           local_map[i].key = src /\ local_map[i].value = prop
    /\ \A i \in 1..Len(local_map) :
           local_map[i].value = prop => local_map[i].key = src

\* C12 as stated: with the merged mapping, when the (one) local source of a
\* property and a global source of that property are both columns of the
\* sample, the property is evaluated with the value of the local source.
C12_LocalSourceValueUsed ==
    Returned =>
        \A prop \in Canonicals : \A src \in MapSources :
            \A j \in 1..Len(global_map) :
                ( /\ OnlyLocalSource(src, prop)
                  /\ global_map[j].value = prop
                  /\ HasColumn(sample_wide_df, src)
                  /\ HasColumn(sample_wide_df, global_map[j].key) )
                => ret.sample[EigIdOf(prop)] = CellNumber(sample_wide_df, src)

WithoutItem(d, i) == SubSeq(d, 1, i - 1) \o SubSeq(d, i + 1, Len(d))

\* C13 as stated: an entry of the mapping dict whose source is no column of
\* the sample changes nothing: the scores and the detail rows (and so the
\* matrix built from them) are those of a call without the entry.
C13_AbsentSourceEntryIgnored ==
    Returned =>
        \A i \in 1..Len(custom_mappings) :
            ~HasColumn(sample_wide_df, custom_mappings[i].key) =>
                LET other == run_cbc(sample_wide_df, db,
                                     WithoutItem(custom_mappings, i))
                IN  /\ ret.results = other.results
                    /\ ret.detail = other.detail

\* C14 as stated: a column that was in the sample before the renaming and
\* is named like the target of a rename (of a source the sample has) is
\* dropped only when it holds a placeholder: one that holds a number is
\* still in the frame the engine evaluates, under its name and with its
\* number.
C14_MeasuredColumnKept ==
    Returned =>
        \A j \in 1..Len(sample_wide_df.columns) :
            ( /\ \E i \in 1..Len(custom_mappings) :
                     /\ custom_mappings[i].value = sample_wide_df.columns[j]
                     /\ HasColumn(sample_wide_df, custom_mappings[i].key)
              /\ sample_wide_df.rows[1][j].k = "num" )
            => LET after == ApplyMappings(sample_wide_df, custom_mappings)
               IN  \E k \in 1..Len(after.columns) :
                       /\ after.columns[k] = sample_wide_df.columns[j]
                       /\ after.rows[1][k] = sample_wide_df.rows[1][j]

\* C28 as stated: when the mapping renames one or more columns of the
\* sample to a property and one of them holds a number other than the
\* sentinel, the property is evaluated with a number: its sample value is
\* not the sentinel and its rules pass or fail; also when several columns
\* of the sample are renamed to the property.
C28_MappedPropertyEvaluated ==
    Returned =>
        \A prop \in Canonicals :
            (\E i \in 1..Len(custom_mappings) :
                 /\ custom_mappings[i].value = prop
                 /\ HasColumn(sample_wide_df, custom_mappings[i].key)
                 /\ CellNumber(sample_wide_df, custom_mappings[i].key) # MISSING)
            => /\ ret.sample[EigIdOf(prop)] # MISSING
               /\ \A k \in 1..Len(ret.detail) :
                      ret.detail[k].EigName = prop => ret.detail[k].Passed \in {0, 1}

DetailHits(cell) ==
    {i \in 1..Len(ret.detail) : /\ ret.detail[i].EigName = cell[1]
                                /\ ret.detail[i].TargetName = cell[2]}

\* C15: run_cbc returns one detail row per rule of nonzero weight, in rule
\* order, and none for a rule of weight zero; every cell of the matrix is
\* -1, 0 or 1; the cell of a (property name, target name) pair that has a
\* detail row holds the Passed flag of that row (of the first one when
\* several rules share the pair), and the cell of a pair without a detail
\* row holds -1; a pair that has a detail row has a cell.
C15_DetailRowsAndMatrixConsistent ==
    Returned =>
        /\ Len(ret.detail) = Len(NonZeroRules)
        /\ \A k \in 1..Len(ret.detail) : RecordsRule(k, NonZeroRules[k])
        /\ \A cell \in DOMAIN ret.matrix :
               /\ ret.matrix[cell] \in {-1, 0, 1}
               /\ DetailHits(cell) = {} => ret.matrix[cell] = -1
               /\ DetailHits(cell) # {} =>
                      ret.matrix[cell] = ret.detail[FirstOf(DetailHits(cell))].Passed
        /\ \A k \in 1..Len(ret.detail) :
               <<ret.detail[k].EigName, ret.detail[k].TargetName>>
                   \in DOMAIN ret.matrix

\* Two rules on different properties and targets: the matrix has four
\* cells, a pass, a missing value and two pairs without a rule.
C15_Witness ==
    /\ Returned
    /\ Len(db.HEEFT) = 2
    /\ Len(ret.detail) = 2
    /\ DOMAIN ret.matrix = {"pH-waarde", "Lutum"} \X {"Akkerbouw", "Natuur"}
    /\ ret.matrix[<<"pH-waarde", "Akkerbouw">>] = 1
    /\ DetailHits(<<"Lutum", "Akkerbouw">>) = {}
    /\ ret.matrix[<<"Lutum", "Akkerbouw">>] = -1
    /\ ret.matrix[<<"Lutum", "Natuur">>] = -1
    /\ DetailHits(<<"Lutum", "Natuur">>) # {}

(***************************************************************************)
(* The wide-row reconstructor (db/samples_store.py).  A text is the        *)
(* sequence of its characters; a TEXT column of SQLite holds a text or     *)
(* NULL.                                                                   *)
(***************************************************************************)
SqlNull == [null |-> TRUE, t |-> <<>>]
SqlText(t) == [null |-> FALSE, t |-> t]

Whitespace == {" "}

Lowest(S) == CHOOSE i \in S : \A j \in S : i <= j
Highest(S) == CHOOSE i \in S : \A j \in S : j <= i

\* str.strip(): the text without its leading and trailing whitespace.
Strip(t) ==
    LET solid == {i \in 1..Len(t) : t[i] \notin Whitespace}
    IN  IF solid = {} THEN <<>> ELSE SubSeq(t, Lowest(solid), Highest(solid))

\* str.replace(c, ""): every occurrence removed.
Remove(t, c) == LET keep(x) == x # c IN SelectSeq(t, keep)

\* str.replace(a, b) for single characters: every occurrence replaced.
Replace(t, a, b) == [i \in 1..Len(t) |-> IF t[i] = a THEN b ELSE t[i]]

\* The Python str of a text.
RECURSIVE Join(_)
Join(t) == IF t = <<>> THEN "" ELSE Head(t) \o Join(Tail(t))

\* Mutant of clean_value_string: the comparison signs left in the text.
clean_value_keep_signs(x) ==
    IF x.null THEN x ELSE SqlText(Replace(Strip(x.t), ",", "."))

\* clean_value_string(x) for what a TEXT column yields: None stays None; a
\* text is stripped, loses every "<" and ">" and has every "," replaced by
\* ".".
clean_value_string(x) ==
    IF x.null THEN x
    ELSE SqlText(Replace(Remove(Remove(Strip(x.t), "<"), ">"), ",", "."))

DigitChars == <<"0", "1", "2", "3", "4", "5", "6", "7", "8", "9">>
IsDigit(c) == \E i \in 1..Len(DigitChars) : DigitChars[i] = c
DigitVal(c) == (CHOOSE i \in 1..Len(DigitChars) : DigitChars[i] = c) - 1

RECURSIVE DigitsVal(_)
DigitsVal(t) ==
    IF t = <<>> THEN 0
    ELSE DigitsVal(SubSeq(t, 1, Len(t) - 1)) * 10 + DigitVal(t[Len(t)])

RECURSIVE Pow10(_)
Pow10(n) == IF n = 0 THEN 1 ELSE 10 * Pow10(n - 1)

\* A float read from a text is held exactly, as its number of hundredths:
\* the texts of the model have at most Decimals decimals.
Decimals == 2

\* pd.to_numeric(..., errors="coerce") on one cleaned value: None and a
\* text that is no decimal number give NaN; [sign] digits [. digits], with
\* or without whitespace around it, gives the number (in hundredths).
to_numeric(x) ==
    IF x.null THEN NaN
    ELSE
      LET t == Strip(x.t)
          signed == Len(t) > 0 /\ t[1] \in {"-", "+"}
          body == IF signed THEN Tail(t) ELSE t
          dots == {i \in 1..Len(body) : body[i] = "."}
          dot == IF dots = {} THEN Len(body) + 1 ELSE Lowest(dots)
          int == SubSeq(body, 1, dot - 1)
          frac == SubSeq(body, dot + 1, Len(body))
          wellFormed == /\ Cardinality(dots) <= 1
                        /\ \A i \in 1..Len(int) : IsDigit(int[i])
                        /\ \A i \in 1..Len(frac) : IsDigit(frac[i])
                        /\ Len(int) + Len(frac) > 0
          magnitude == DigitsVal(int) * Pow10(Decimals)
                       + DigitsVal(frac) * Pow10(Decimals - Len(frac))
      IN  IF ~wellFormed THEN NaN
          ELSE Num(IF signed /\ t[1] = "-" THEN 0 - magnitude ELSE magnitude)

\* f"{p} ({u})" if u else p, on texts.
Label(p, u) == IF u # <<>> THEN p \o <<" ", "(">> \o u \o <<")">> ELSE p

\* format_full_id(param, unit) of the mapping pages: p = str(param).strip();
\* u = str(unit).strip() if unit else "" (None and "" are falsy).
format_full_id(param, unit) ==
    LET p_ == Strip(param.t)
        u_ == IF ~unit.null /\ unit.t # <<>> THEN Strip(unit.t) ELSE <<>>
    IN  Join(Label(p_, u_))

\* Mutant of ColumnKey: the parameter name taken as stored, not stripped.
ColumnKeyUntrimmed(r) ==
    Label(r.parameter.t, Strip(IF r.unit.null THEN <<>> ELSE r.unit.t))

\* The column key load_sample_wide builds for a fetched row: Parameter is
\* astype(str).str.strip(), Unit is fillna("").astype(str).str.strip().
ColumnKey(r) ==
    LET Parameter == Strip(r.parameter.t)
        Unit == Strip(IF r.unit.null THEN <<>> ELSE r.unit.t)
    IN  Label(Parameter, Unit)

\* The characters of the column keys of the model in code point order.
CodePoints == <<" ", "%", "(", ")", "H", "Z", "n", "p">>
Ord(c) == CHOOSE i \in 1..Len(CodePoints) : CodePoints[i] = c

\* Mutant of TextLess: the order reversed.
TextGreater(a, b) ==
    \E i \in 1..(Len(a)) :
        /\ \A j \in 1..(i - 1) : j <= Len(b) /\ b[j] = a[j]
        /\ \/ i = Len(b) + 1
           \/ i <= Len(b) /\ Ord(b[i]) < Ord(a[i])

\* a < b for Python strings: at the first position where they differ a has
\* the smaller character, or a is a proper prefix of b.
TextLess(a, b) ==
    \E i \in 1..(Len(b)) :
        /\ \A j \in 1..(i - 1) : j <= Len(a) /\ a[j] = b[j]
        /\ \/ i = Len(a) + 1
           \/ i <= Len(a) /\ Ord(a[i]) < Ord(b[i])

\* Mutant of FirstValid: the first row of the key, numeric or not.
FirstOfKey(keys, values, k) ==
    {Lowest({i \in 1..Len(keys) : keys[i] = k})}

\* The rows of a key that hold a number: groupby(...).agg("first") takes
\* the first non-null value of the group.
FirstValid(keys, values, k) ==
    LET valid == {i \in 1..Len(keys) : keys[i] = k /\ values[i].k = "num"}
    IN  IF valid = {} THEN {} ELSE {Lowest(valid)}

\* Mutant of pivot_table: the keys without a number kept as NaN columns.
pivot_table_keep_all(keys, values, sample_id) ==
    LET first(k) == FirstValid(keys, values, k)
        cell(k) == IF first(k) = {} THEN NaN
                   ELSE values[CHOOSE i \in first(k) : TRUE]
        kept == {keys[i] : i \in 1..Len(keys)}
        rank(k) == 1 + Cardinality({o \in kept : TextLess(o, k)})
        sorted == [j \in 1..Cardinality(kept) |->
                      CHOOSE k \in kept : rank(k) = j]
    IN  [columns |-> <<"SampleID">>
                     \o [j \in 1..Len(sorted) |-> Join(sorted[j])],
         rows |-> << <<Txt(sample_id)>>
                     \o [j \in 1..Len(sorted) |-> cell(sorted[j])] >>]

\* df_long.pivot_table(index="SampleID", columns="Parameter",
\* values="Value", aggfunc="first").reset_index() for one SampleID: a key
\* whose values are all NaN is dropped, the columns are sorted, and when no
\* key is left the frame has no row.
pivot_table(keys, values, sample_id) ==
    LET first(k) == FirstValid(keys, values, k)
        cell(k) == values[CHOOSE i \in first(k) : TRUE]
        kept == {k \in {keys[i] : i \in 1..Len(keys)} :
                    first(k) # {} /\ cell(k).k = "num"}
        rank(k) == 1 + Cardinality({o \in kept : TextLess(o, k)})
        sorted == [j \in 1..Cardinality(kept) |->
                      CHOOSE k \in kept : rank(k) = j]
    IN  IF kept = {} THEN [columns |-> <<"SampleID">>, rows |-> <<>>]
        ELSE [columns |-> <<"SampleID">>
                          \o [j \in 1..Len(sorted) |-> Join(sorted[j])],
              rows |-> << <<Txt(sample_id)>>
                          \o [j \in 1..Len(sorted) |-> cell(sorted[j])] >>]

\* wide[name] = cell: a new last column, or the column of that name
\* overwritten.
SetColumn(df, name, cell) ==
    IF HasColumn(df, name)
    THEN [columns |-> df.columns,
          rows |-> [r \in 1..Len(df.rows) |->
                       [j \in 1..Len(df.columns) |->
                           IF df.columns[j] = name THEN cell
                           ELSE df.rows[r][j]]]]
    ELSE [columns |-> Append(df.columns, name),
          rows |-> [r \in 1..Len(df.rows) |-> Append(df.rows[r], cell)]]

\* Mutant of PadRequired: no column added.
PadRequiredNothing(df, required, i) == df

\* for col in required_cols: if col not in wide.columns: wide[col] = np.nan
RECURSIVE PadRequired(_, _, _)
PadRequired(df, required, i) ==
    IF i > Len(required) THEN df
    ELSE PadRequired(IF HasColumn(df, required[i]) THEN df
                     ELSE SetColumn(df, required[i], NaN),
                     required, i + 1)

\* wide[names]: the named columns in that order.
SelectColumns(df, names) ==
    LET at(j) == CHOOSE i \in ColumnIdx(df, names[j]) : TRUE
    IN  [columns |-> names,
         rows |-> [r \in 1..Len(df.rows) |->
                      [j \in 1..Len(names) |-> df.rows[r][at(j)]]]]

\* main_cols + other_cols
Reordered(df, required) ==
    LET present(c) == HasColumn(df, c)
        main_cols == <<"SampleID", "DateProcessed">> \o SelectSeq(required, present)
        other(c) == \A j \in 1..Len(main_cols) : main_cols[j] # c
        other_cols == SelectSeq(df.columns, other)
    IN  SelectColumns(df, main_cols \o other_cols)

ReturnedNone == [state |-> "none", columns |-> <<>>, rows |-> <<>>]
ReturnedFrame(df) == [state |-> "frame", columns |-> df.columns, rows |-> df.rows]

\* load_sample_wide for the fetched rows of (user_id, pdf_id, sample_id);
\* today is datetime.now().strftime("%Y-%m-%d").
load_sample_wide(rows, sample_id, required, today) ==
    IF Len(rows) = 0 THEN ReturnedNone
    ELSE
      LET keys == [i \in 1..Len(rows) |-> ColumnKey(rows[i])]
          values == [i \in 1..Len(rows) |->
                        to_numeric(clean_value_string(rows[i].value))]
          pivoted == pivot_table(keys, values, sample_id)
          padded == PadRequired(pivoted, required, 1)
          dated == SetColumn(padded, "DateProcessed", Txt(today))
      IN  ReturnedFrame(Reordered(dated, required))

\* What the extraction stores: parameter names with and without stray
\* whitespace, units NULL, blank or "% ", values NULL, a comma decimal, a
\* "less than" bound, a word, a text with "<" inside, a padded integer.
ParameterTexts == {<<"p", "H">>, <<" ", "p", "H">>, <<"Z", "n">>}
UnitTexts == {SqlNull, SqlText(<<" ">>), SqlText(<<"%", " ">>)}
ValueTexts ==
    {SqlNull, SqlText(<<"7", ",", "1">>), SqlText(<<"<", "0", ".", "1">>),
     SqlText(<<"x">>), SqlText(<<"1", "<", "2">>), SqlText(<<" ", "7", " ">>)}

LongRows == [parameter : {SqlText(t) : t \in ParameterTexts},
             unit : UnitTexts, value : ValueTexts]

\* PRIMARY KEY (user_id, pdf_id, sample_id, parameter, unit): two rows of a
\* sample differ in parameter or unit as stored; NULL units are distinct.
StoredRows ==
    {rs \in SeqsUpTo(LongRows, MaxLongRows) :
        \A i, j \in 1..Len(rs) :
            (rs[i].parameter = rs[j].parameter /\ rs[i].unit = rs[j].unit
             /\ ~rs[i].unit.null) => i = j}

\* The canonical names the caller requires, in the caller's order.
RequiredChoices == {<<>>, <<"pH", "Zn">>}

InitWide ==
    /\ pc = "idle"
    /\ StoreIdle /\ AnalyseIdle /\ RetryIdle
    /\ long_rows \in StoredRows
    /\ required_cols \in RequiredChoices
    /\ wide = NotLoaded
    /\ sample_wide_df = ZeroRowFrame
    /\ db = [TARGET |-> <<>>, EIGENSCHAP |-> <<>>, HEEFT |-> <<>>]
    /\ custom_mappings = <<>>
    /\ ret = NoResult
    /\ ResolveIdle

\* wide = load_sample_wide(samples_conn, user_id, pdf_id, sample_name,
\* required_cols)
LoadSampleWide ==
    /\ pc = "idle"
    /\ wide' = load_sample_wide(long_rows, "M1", required_cols, "2024-01-01")
    /\ pc' = "returned"
    /\ UNCHANGED <<long_rows, required_cols>>
    /\ UNCHANGED cbcVars
    /\ UNCHANGED resolveVars
    /\ UNCHANGED <<storeVars, analyseVars, retryVars>>

NextWide == LoadSampleWide

SpecWide == InitWide /\ [][NextWide]_vars

(***************************************************************************)
(* Properties of load_sample_wide.                                         *)
(***************************************************************************)
Range(f) == {f[i] : i \in DOMAIN f}

\* The number the fetched row i holds after cleaning, NaN when none.
NumberOf(i) == to_numeric(clean_value_string(long_rows[i].value))
LabelOf(i) == Join(ColumnKey(long_rows[i]))
SameKey(i) == {j \in 1..Len(long_rows) : ColumnKey(long_rows[j]) = ColumnKey(long_rows[i])}
NumericRows == {i \in 1..Len(long_rows) : NumberOf(i).k = "num"}

\* What the returned frame holds under a label: the cell of its row, NaN
\* (missing) when it has no such column or no row.
WideCell(label) ==
    IF wide.state = "frame" /\ Len(wide.rows) > 0 /\ label \in Range(wide.columns)
    THEN wide.rows[1][CHOOSE j \in 1..Len(wide.columns) : wide.columns[j] = label]
    ELSE NaN

C18_LabelNamesColumn ==
    (Returned /\ Len(long_rows) > 0) =>
        \A i \in 1..Len(long_rows) :
            /\ LabelOf(i) = format_full_id(long_rows[i].parameter, long_rows[i].unit)
            /\ LabelOf(i) \in Range(wide.columns)

\* The claim's wording of the key, on the stored texts.
WordedKey(r) ==
    LET p_ == Join(Strip(r.parameter.t))
        u_ == IF r.unit.null THEN "" ELSE Join(Strip(r.unit.t))
    IN  IF u_ # "" THEN p_ \o " (" \o u_ \o ")" ELSE p_

\* C18 as amended: the column key of a stored row is "{parameter} ({unit})"
\* with both trimmed when the trimmed unit is not empty, else the trimmed
\* parameter, and it is the label format_full_id gives for the pair; the
\* label names a column of the returned frame exactly when a stored row of
\* that key holds a number after cleaning or the label is a required
\* column.
C18_KeyIsLabelColumnIffNumber ==
    (Returned /\ Len(long_rows) > 0) =>
        \A i \in 1..Len(long_rows) :
            /\ LabelOf(i) = WordedKey(long_rows[i])
            /\ LabelOf(i) = format_full_id(long_rows[i].parameter, long_rows[i].unit)
            /\ LabelOf(i) \in Range(wide.columns)
                   <=> \/ SameKey(i) \cap NumericRows # {}
                       \/ LabelOf(i) \in Range(required_cols)

\* " pH" without unit measures 7,1 and "Zn" in "% " holds a word: the row
\* has the column pH and no column Zn (%).
C18_Witness ==
    /\ Returned
    /\ required_cols = <<>>
    /\ long_rows = << [parameter |-> SqlText(<<" ", "p", "H">>),
                       unit |-> SqlNull,
                       value |-> SqlText(<<"7", ",", "1">>)],
                      [parameter |-> SqlText(<<"Z", "n">>),
                       unit |-> SqlText(<<"%", " ">>),
                       value |-> SqlText(<<"x">>)] >>
    /\ format_full_id(long_rows[2].parameter, long_rows[2].unit) = "Zn (%)"
    /\ wide.columns = <<"SampleID", "DateProcessed", "pH">>
    /\ WideCell("pH") = Num(710)

\* The text without its leading "<" and ">" characters.
RECURSIVE StripLeadingSigns(_)
StripLeadingSigns(t) ==
    IF t # <<>> /\ Head(t) \in {"<", ">"} THEN StripLeadingSigns(Tail(t)) ELSE t

\* The cleaning as C19 words it: the leading signs stripped, the commas
\* replaced by periods, the text otherwise as stored.
LeadingSignsCleaned(x) ==
    IF x.null THEN x
    ELSE SqlText(Replace(StripLeadingSigns(Strip(x.t)), ",", "."))

\* The rows whose key no other stored row has.
AloneOnKey == {i \in 1..Len(long_rows) : SameKey(i) = {i}}

\* C19 as stated: the cleaning strips the leading "<" or ">" and replaces
\* decimal commas by periods and does nothing else to the text, so the wide
\* row holds for a stored value the number that text then reads as, and a
\* missing value when it reads as no number; nothing raises.
C19_OnlyLeadingSignsStripped ==
    (Returned /\ Len(long_rows) > 0) =>
        /\ wide.state = "frame"
        /\ \A i \in AloneOnKey :
               WideCell(LabelOf(i)) = to_numeric(LeadingSignsCleaned(long_rows[i].value))

\* C20 as stated: of the stored rows that give the same column key the wide
\* row holds the value of the first one, a missing value when that first
\* value is NULL or no number, whatever the later rows hold.
C20_FirstRowWins ==
    (Returned /\ Len(long_rows) > 0) =>
        \A i \in 1..Len(long_rows) :
            WideCell(LabelOf(i)) = NumberOf(Lowest(SameKey(i)))

\* C20 as amended: of the stored rows that give the same column key the
\* wide row holds the first value that is a number after cleaning: a first
\* row whose value is NULL or no number is passed over for a later numeric
\* one, and the key is missing only when none of its rows holds a number.
C20_FirstNumberWins ==
    (Returned /\ Len(long_rows) > 0) =>
        \A i \in 1..Len(long_rows) :
            LET numeric == SameKey(i) \cap NumericRows
            IN  WideCell(LabelOf(i)) =
                    IF numeric = {} THEN NaN ELSE NumberOf(Lowest(numeric))

\* "pH" is stored twice without unit (NULL units are distinct keys of the
\* table), first with a word, then with 7,1: the wide row holds 7.1.
C20_Witness ==
    /\ Returned
    /\ Len(long_rows) = 2
    /\ LabelOf(1) = "pH"
    /\ LabelOf(2) = "pH"
    /\ long_rows[1].value = SqlText(<<"x">>)
    /\ long_rows[2].value = SqlText(<<"7", ",", "1">>)
    /\ WideCell("pH") = Num(710)

\* The stored rows whose column key reads as the label.
RowsOfLabel(label) == {i \in 1..Len(long_rows) : LabelOf(i) = label}

\* C21: every frame load_sample_wide returns has every name of
\* required_cols as a column; in its row a required column holds NaN when
\* no stored row of that name holds a number, and the extracted number when
\* one does.
C21_RequiredColumnsPresent ==
    (Returned /\ wide.state = "frame") =>
        \A c \in Range(required_cols) :
            /\ c \in Range(wide.columns)
            /\ Len(wide.rows) = 1 =>
                   LET numeric == RowsOfLabel(c) \cap NumericRows
                   IN  WideCell(c) = IF numeric = {} THEN NaN
                                     ELSE NumberOf(Lowest(numeric))

\* pH and Zn are required; pH is stored as 7,1 and Zn only with a unit: the
\* row holds 7.1 under pH, NaN under Zn and the extra column Zn (%).
C21_Witness ==
    /\ Returned
    /\ required_cols = <<"pH", "Zn">>
    /\ Len(long_rows) = 2
    /\ Len(wide.rows) = 1
    /\ WideCell("pH") = Num(710)
    /\ WideCell("Zn") = NaN
    /\ "Zn" \in Range(wide.columns)
    /\ WideCell("Zn (%)") = Num(10)

\* The columns after SampleID, DateProcessed and the required ones.
ExtraColumns ==
    SubSeq(wide.columns, 3 + Len(required_cols), Len(wide.columns))

NoColumnTwice ==
    \A a, b \in 1..Len(wide.columns) :
        wide.columns[a] = wide.columns[b] => a = b

HeadColumnsInOrder ==
    /\ Len(wide.columns) >= 2 + Len(required_cols)
    /\ SubSeq(wide.columns, 1, 2) = <<"SampleID", "DateProcessed">>
    /\ SubSeq(wide.columns, 3, 2 + Len(required_cols)) = required_cols

\* C22 as stated: the columns are SampleID, DateProcessed, the required
\* columns in the caller's order, then the extra extracted columns in the
\* order in which the stored rows first produced their key; no column
\* appears twice.
C22_ExtrasInDiscoveryOrder ==
    (Returned /\ wide.state = "frame") =>
        /\ HeadColumnsInOrder
        /\ NoColumnTwice
        /\ \A a, b \in 1..Len(ExtraColumns) :
               a < b => Lowest(RowsOfLabel(ExtraColumns[a]))
                            < Lowest(RowsOfLabel(ExtraColumns[b]))

\* The column labels the stored rows of the model can produce, in
\* ascending order of their code points ("Z" is before "p").
LabelsAscending == <<"Zn", "Zn (%)", "pH", "pH (%)">>

PlaceOf(label) == CHOOSE k \in 1..Len(LabelsAscending) : LabelsAscending[k] = label

\* C22 as amended: the columns are SampleID, DateProcessed, the required
\* columns in the caller's order, then the extra columns, which are the
\* keys outside the required set that hold a number, in ascending order of
\* their key text (the order of the pivot, not of the stored rows); no
\* column appears twice.
C22_ExtrasInKeyOrder ==
    (Returned /\ wide.state = "frame") =>
        /\ HeadColumnsInOrder
        /\ NoColumnTwice
        /\ Range(ExtraColumns) =
               {LabelOf(i) : i \in NumericRows} \ Range(required_cols)
        /\ \A a, b \in 1..Len(ExtraColumns) :
               /\ ExtraColumns[a] \in Range(LabelsAscending)
               /\ a < b => PlaceOf(ExtraColumns[a]) < PlaceOf(ExtraColumns[b])

\* " pH" is fetched before "Zn", nothing is required: the columns are
\* SampleID, DateProcessed, Zn, pH.
C22_Witness ==
    /\ Returned
    /\ required_cols = <<>>
    /\ Len(long_rows) = 2
    /\ LabelOf(1) = "pH"
    /\ LabelOf(2) = "Zn"
    /\ long_rows[1].parameter = SqlText(<<" ", "p", "H">>)
    /\ wide.columns = <<"SampleID", "DateProcessed", "Zn", "pH">>

(***************************************************************************)
(* Reconstruction followed by evaluation: the frame load_sample_wide       *)
(* returns is handed to run_cbc.  The cells and the rule bounds are both   *)
(* in hundredths; no stored text of the model reads as -1 or -0.01, so a   *)
(* numeric cell is never the sentinel in either unit.                      *)
(***************************************************************************)
\* The properties are named like the column keys pH and Zn.  One target:
\* pH in [6.5, 7.5] and Zn in [0, 0.05], weight 1 each.
RoundDb ==
    [TARGET |-> <<[TargetID |-> 1, Name |-> "Akkerbouw"]>>,
     EIGENSCHAP |-> <<[EigID |-> 1, Name |-> "pH"], [EigID |-> 2, Name |-> "Zn"]>>,
     HEEFT |-> << [TargetID |-> 1, EigID |-> 1, Weight |-> 1,
                   Min |-> Num(650), Max |-> Num(750)],
                  [TargetID |-> 1, EigID |-> 2, Weight |-> 1,
                   Min |-> Num(0), Max |-> Num(5)] >>]

\* Rows stored without unit: their keys are the parameter names.
RoundRows == {rs \in StoredRows : \A i \in 1..Len(rs) : rs[i].unit.null}

InitRound ==
    /\ pc = "idle"
    /\ StoreIdle /\ AnalyseIdle /\ RetryIdle
    /\ long_rows \in RoundRows
    /\ required_cols \in RequiredChoices
    /\ wide = NotLoaded
    /\ sample_wide_df = ZeroRowFrame
    /\ db = RoundDb
    /\ custom_mappings = <<>>
    /\ ret = NoResult
    /\ ResolveIdle

\* if wide is None or wide.empty: continue; otherwise run_cbc(wide, db_conn)
EvaluateWide ==
    /\ pc = "returned"
    /\ wide.state = "frame"
    /\ Len(wide.rows) > 0
    /\ sample_wide_df' = [columns |-> wide.columns, rows |-> wide.rows]
    /\ ret' = run_cbc(sample_wide_df', db, custom_mappings)
    /\ pc' = IF ret'.exc = "" THEN "evaluated" ELSE "raised"
    /\ UNCHANGED <<db, custom_mappings>>
    /\ UNCHANGED resolveVars
    /\ UNCHANGED wideVars
    /\ UNCHANGED <<storeVars, analyseVars, retryVars>>

NextRound == LoadSampleWide \/ EvaluateWide

SpecRound == InitRound /\ [][NextRound]_vars

\* The detail rows of a property name.
DetailOf(name) == {k \in 1..Len(ret.detail) : ret.detail[k].EigName = name}

\* C23: a stored "7,1" reads as 7.1 and a stored "<0.1" as 0.1; the first
\* number stored under a key that is a property name is the cell of that
\* column and the observed value of every rule on the property: the rule
\* is recorded with that value and with Passed 1 when the value is within
\* [Min, Max] and 0 when it is not, never -1 (7.1 in [6.5, 7.5] passes,
\* 0.1 in [0, 0.05] fails).
C23_StoredTextEvaluatedAsNumber ==
    pc = "evaluated" =>
        /\ \A i \in 1..Len(long_rows) :
               /\ long_rows[i].value = SqlText(<<"7", ",", "1">>) =>
                      NumberOf(i) = Num(710)
               /\ long_rows[i].value = SqlText(<<"<", "0", ".", "1">>) =>
                      NumberOf(i) = Num(10)
        /\ \A name \in {"pH", "Zn"} :
               LET numeric == RowsOfLabel(name) \cap NumericRows
               IN  numeric # {} =>
                     LET n == NumberOf(Lowest(numeric)).n
                     IN  /\ WideCell(name) = Num(n)
                         /\ DetailOf(name) # {}
                         /\ \A k \in DetailOf(name) :
                                /\ ret.detail[k].SampleValue = n
                                /\ ret.detail[k].Passed =
                                       IF /\ ret.detail[k].Min.n <= n
                                          /\ n <= ret.detail[k].Max.n
                                       THEN 1 ELSE 0

\* pH is stored as "7,1" and Zn as "<0.1": the pH rule passes on 7.1 and
\* the Zn rule fails on 0.1.
C23_Witness ==
    /\ pc = "evaluated"
    /\ Len(long_rows) = 2
    /\ LabelOf(1) = "pH"
    /\ long_rows[1].value = SqlText(<<"7", ",", "1">>)
    /\ LabelOf(2) = "Zn"
    /\ long_rows[2].value = SqlText(<<"<", "0", ".", "1">>)
    /\ ret.detail[1].SampleValue = 710
    /\ ret.detail[1].Passed = 1
    /\ ret.detail[2].SampleValue = 10
    /\ ret.detail[2].Passed = 0

(***************************************************************************)
(* samples.db.  A table is the sequence of its rows in rowid order.  A     *)
(* SELECT with the leading primary key columns bound walks the primary key *)
(* index: its rows come in the order of the remaining key columns          *)
(* (BINARY collation, NULL first), rows with equal keys in rowid order.    *)
(***************************************************************************)
UnitLess(a, b) ==
    \/ a.null /\ ~b.null
    \/ ~a.null /\ ~b.null /\ TextLess(a.t, b.t)

\* (parameter, unit) of r1 before (parameter, unit) of r2 in the index.
IndexLess(r1, r2) ==
    \/ TextLess(r1.parameter.t, r2.parameter.t)
    \/ r1.parameter = r2.parameter /\ UnitLess(r1.unit, r2.unit)

\* The rows in the order `before` of their keys, equal keys in rowid order.
InIndexOrder(rows, before) ==
    LET ahead(j, i) == \/ before[j, i]
                       \/ ~before[i, j] /\ j < i
        rank(i) == 1 + Cardinality({j \in 1..Len(rows) : ahead(j, i)})
    IN  [k \in 1..Len(rows) |-> rows[CHOOSE i \in 1..Len(rows) : rank(i) = k]]

\* SELECT parameter, unit, value FROM extracted_samples
\* WHERE user_id = ? AND pdf_id = ? AND sample_id = ?
FetchSample(table, user_id, pdf_id, sample_id) ==
    LET mine(r) == r.user_id = user_id /\ r.pdf_id = pdf_id /\ r.sample_id = sample_id
        found == SelectSeq(table, mine)
        rows == InIndexOrder(found,
                    [i \in DOMAIN found, j \in DOMAIN found |->
                        IndexLess(found[i], found[j])])
    IN  [k \in 1..Len(rows) |->
            [parameter |-> rows[k].parameter, unit |-> rows[k].unit,
             value |-> rows[k].value]]

\* Mutant of get_local_mappings: the entries of every report of the user.
get_local_mappings_any_pdf(table, user_id, pdf_id) ==
    LET mine(r) == r.user_id = user_id
        found == SelectSeq(table, mine)
        rows == InIndexOrder(found,
                    [i \in DOMAIN found, j \in DOMAIN found |->
                        TextLess(found[i].source_param, found[j].source_param)])
    IN  [k \in 1..Len(rows) |->
            [key |-> Join(rows[k].source_param), value |-> rows[k].target_eigenschap]]

\* get_local_mappings: the dict of the rows of (user_id, pdf_id), in the
\* order of the fetch, which is the order of source_param in the index.
get_local_mappings(table, user_id, pdf_id) ==
    LET mine(r) == r.user_id = user_id /\ r.pdf_id = pdf_id
        found == SelectSeq(table, mine)
        rows == InIndexOrder(found,
                    [i \in DOMAIN found, j \in DOMAIN found |->
                        TextLess(found[i].source_param, found[j].source_param)])
    IN  [k \in 1..Len(rows) |->
            [key |-> Join(rows[k].source_param), value |-> rows[k].target_eigenschap]]

\* get_global_mappings: the dict of the whole table, a scan in rowid order.
get_global_mappings(table) ==
    [k \in 1..Len(table) |->
        [key |-> Join(table[k].source_param), value |-> table[k].target_eigenschap]]

(***************************************************************************)
(* The evaluation loop of the Analyse page.                                *)
(***************************************************************************)
AnalyseUser == "u1"

\* The (pdf_id, sample_id) pairs the store may hold.
AnalysePairs == {<<"A.pdf", "M1">>, <<"A.pdf", "M2">>, <<"B.pdf", "M1">>}

\* What is stored for a sample: nothing, pH 7,1, pH as a word (no number),
\* or Zn in % below 0.1 (a source column that needs a mapping).
SampleData ==
    {<<>>,
     <<[parameter |-> SqlText(<<"p", "H">>), unit |-> SqlNull,
        value |-> SqlText(<<"7", ",", "1">>)]>>,
     <<[parameter |-> SqlText(<<"p", "H">>), unit |-> SqlNull,
        value |-> SqlText(<<"x">>)]>>,
     <<[parameter |-> SqlText(<<"Z", "n">>), unit |-> SqlText(<<"%", " ">>),
        value |-> SqlText(<<"<", "0", ".", "1">>)]>>}

\* The rows of a sample as rows of the table.
TableRows(pair, data) ==
    [k \in 1..Len(data) |->
        [user_id |-> AnalyseUser, pdf_id |-> pair[1], sample_id |-> pair[2],
         parameter |-> data[k].parameter, unit |-> data[k].unit,
         value |-> data[k].value]]

\* The contents of extracted_samples: any data for each pair.
SampleTables ==
    {TableRows(<<"A.pdf", "M1">>, d1) \o TableRows(<<"A.pdf", "M2">>, d2)
        \o TableRows(<<"B.pdf", "M1">>, d3) : d1, d2, d3 \in SampleData}

\* The contents of parameter_mappings: report A maps Zn (%) to Zn or not,
\* report B maps Zn (%) to pH or not.
LocalEntryA == [user_id |-> AnalyseUser, pdf_id |-> "A.pdf",
                source_param |-> <<"Z", "n", " ", "(", "%", ")">>,
                target_eigenschap |-> "Zn"]
LocalEntryB == [user_id |-> AnalyseUser, pdf_id |-> "B.pdf",
                source_param |-> <<"Z", "n", " ", "(", "%", ")">>,
                target_eigenschap |-> "pH"]
LocalTables == {<<>>, <<LocalEntryA>>, <<LocalEntryB>>, <<LocalEntryA, LocalEntryB>>}

\* SELECT DISTINCT pdf_id, sample_id FROM extracted_samples WHERE user_id = ?
sample_pairs(table) ==
    {<<table[k].pdf_id, table[k].sample_id>> : k \in
        {k \in 1..Len(table) : table[k].user_id = AnalyseUser}}

\* What st.multiselect returns: some of the pairs, each once, in the order
\* of selection; the page stops when none is selected.
Selections(pairs) ==
    {sel \in SeqsUpTo(pairs, Cardinality(pairs)) :
        /\ Len(sel) > 0
        /\ \A a, b \in 1..Len(sel) : sel[a] = sel[b] => a = b}

\* f"{pdf_id} - {sample_name}" (the source writes an em dash).
SampleLabel(pair) == pair[1] \o " - " \o pair[2]

\* Mutant of IsSkippedSample: only None skipped, a frame without rows
\* evaluated.
IsSkippedOnlyNone(w) == w.state = "none"

\* wide is None or wide.empty
IsSkippedSample(w) == w.state = "none" \/ Len(w.rows) = 0 \/ Len(w.columns) = 0

\* results_df of run_cbc: the one score row.
ScoreRow(r) == [SampleID |-> r.SampleID, DateProcessed |-> r.DateProcessed,
                scores |-> r.results]

InitAnalyse ==
    /\ pc = "looping"
    /\ extracted_samples \in SampleTables
    /\ parameter_mappings \in LocalTables
    /\ global_parameter_mappings \in
           {<<>>, <<[source_param |-> <<"Z", "n", " ", "(", "%", ")">>,
                     target_eigenschap |-> "Zn"]>>}
    /\ store_calls = <<>>
    /\ sample_pairs(extracted_samples) # {}
    /\ selected_samples \in Selections(sample_pairs(extracted_samples))
    /\ loop_i = 0
    /\ result_rows = <<>>
    /\ matrices = <<>>
    /\ breakdowns = <<>>
    /\ db = RoundDb
    /\ sample_wide_df = ZeroRowFrame
    /\ custom_mappings = <<>>
    /\ ret = NoResult
    /\ ResolveIdle /\ WideIdle /\ RetryIdle

\* The head of an iteration of `for pdf_id, sample_name in
\* selected_samples`: the sample is reconstructed and the mappings of its
\* report are read.
LoadSelectedSample ==
    /\ pc = "looping"
    /\ loop_i < Len(selected_samples)
    /\ LET pair == selected_samples[loop_i + 1]
       IN  /\ long_rows' = FetchSample(extracted_samples, AnalyseUser,
                                       pair[1], pair[2])
           /\ required_cols' = <<"pH", "Zn">>
           /\ wide' = load_sample_wide(long_rows', pair[2], required_cols',
                                       "2024-01-01")
           /\ custom_mappings' = get_combined_mappings(
                  get_global_mappings(global_parameter_mappings),
                  get_local_mappings(parameter_mappings, AnalyseUser, pair[1]))
    /\ pc' = "loaded"
    /\ UNCHANGED <<sample_wide_df, db, ret>>
    /\ UNCHANGED <<storeVars, analyseVars, resolveVars, retryVars>>

\* The rest of the iteration: the sample is skipped, or named by its label,
\* evaluated and its results collected.
EvaluateSelectedSample ==
    /\ pc = "loaded"
    /\ loop_i' = loop_i + 1
    /\ IF IsSkippedSample(wide)
       THEN /\ pc' = "looping"
            /\ UNCHANGED <<sample_wide_df, ret, result_rows, matrices, breakdowns>>
       ELSE LET label == SampleLabel(selected_samples[loop_i + 1])
            IN  /\ sample_wide_df' = SetColumn([columns |-> wide.columns,
                                                rows |-> wide.rows],
                                               "SampleID", Txt(label))
                /\ ret' = run_cbc(sample_wide_df', db, custom_mappings)
                /\ IF ret'.exc # ""
                   THEN /\ pc' = "raised"
                        /\ UNCHANGED <<result_rows, matrices, breakdowns>>
                   ELSE /\ pc' = "looping"
                        /\ result_rows' = Append(result_rows, ScoreRow(ret'))
                        /\ matrices' = [l \in DOMAIN matrices \cup {label} |->
                                           IF l = label THEN ret'.matrix
                                           ELSE matrices[l]]
                        /\ breakdowns' = [l \in DOMAIN breakdowns \cup {label} |->
                                             IF l = label THEN ret'.detail
                                             ELSE breakdowns[l]]
    /\ UNCHANGED <<db, custom_mappings, selected_samples>>
    /\ UNCHANGED <<wideVars, storeVars, resolveVars, retryVars>>

\* After the loop: a warning without score rows, else the concatenated
\* score table (the rows in the order collected) is shown.
AnalyseShow ==
    /\ pc = "looping"
    /\ loop_i = Len(selected_samples)
    /\ pc' = IF result_rows = <<>> THEN "warned" ELSE "shown"
    /\ UNCHANGED <<cbcVars, resolveVars, wideVars, storeVars, analyseVars,
                   retryVars>>

NextAnalyse == LoadSelectedSample \/ EvaluateSelectedSample \/ AnalyseShow

SpecAnalyse == InitAnalyse /\ [][NextAnalyse]_vars

\* The rows of extracted_samples that belong to a pair.
RowsOfPair(pair) ==
    {k \in 1..Len(extracted_samples) :
        /\ extracted_samples[k].pdf_id = pair[1]
        /\ extracted_samples[k].sample_id = pair[2]}

\* A sample has reconstructable data when a stored value of it is a number.
Reconstructable(pair) ==
    \E k \in RowsOfPair(pair) :
        to_numeric(clean_value_string(extracted_samples[k].value)).k = "num"

\* The samples handled so far that have reconstructable data, in the order
\* of selection.
KeptSamples == SelectSeq(SubSeq(selected_samples, 1, loop_i), Reconstructable)

\* The property that "Zn (%)" stands for in a report: the local entry of
\* that report, else the global entry, else none.
ZnTarget(pdf_id) ==
    LET locals == {k \in 1..Len(parameter_mappings) :
                      parameter_mappings[k].pdf_id = pdf_id}
    IN  IF locals # {}
        THEN parameter_mappings[CHOOSE k \in locals : TRUE].target_eigenschap
        ELSE IF global_parameter_mappings # <<>>
        THEN global_parameter_mappings[1].target_eigenschap
        ELSE ""

\* The mappings of a report: its local entry over the global entry.
MappingsOfReport(pdf_id) ==
    IF ZnTarget(pdf_id) = "" THEN <<>>
    ELSE <<[key |-> "Zn (%)", value |-> ZnTarget(pdf_id)]>>

\* The evaluation of a sample on its own: its reconstructed frame, named
\* by its label, with the mappings of its report.
EvaluatedAlone(pair) ==
    LET rows == FetchSample(extracted_samples, AnalyseUser, pair[1], pair[2])
        w == load_sample_wide(rows, pair[2], <<"pH", "Zn">>, "2024-01-01")
        frame == SetColumn([columns |-> w.columns, rows |-> w.rows],
                           "SampleID", Txt(SampleLabel(pair)))
    IN  run_cbc(frame, db, MappingsOfReport(pair[1]))

\* C24: the loop yields one score row per selected sample that has
\* reconstructable data, in the order of selection (a skipped sample does
\* not shift the others); the matrix and the detail of each are stored
\* under the label of its report and its sample, and each sample is
\* evaluated with the mappings of its own report; no evaluation fails.
C24_OneScoreRowPerSample ==
    LET kept == KeptSamples
    IN  /\ pc # "raised"
        /\ Len(result_rows) = Len(kept)
        /\ DOMAIN matrices = {SampleLabel(kept[k]) : k \in 1..Len(kept)}
        /\ DOMAIN breakdowns = DOMAIN matrices
        /\ \A k \in 1..Len(kept) :
               LET label == SampleLabel(kept[k])
                   detail == breakdowns[label]
               IN  /\ label = kept[k][1] \o " - " \o kept[k][2]
                   /\ result_rows[k].SampleID = Txt(label)
                   /\ EvaluatedAlone(kept[k]).exc = ""
                   /\ result_rows[k] = ScoreRow(EvaluatedAlone(kept[k]))
                   /\ detail = EvaluatedAlone(kept[k]).detail
                   /\ matrices[label] = EvaluatedAlone(kept[k]).matrix
        /\ pc = "shown" => Len(kept) > 0
        /\ pc = "warned" => Len(kept) = 0

\* Three samples selected, the second without a number: two score rows,
\* the first evaluated with the mapping of report A (Zn (%) is Zn) and the
\* last with the mapping of report B (Zn (%) is pH).
C24_Witness ==
    /\ pc = "shown"
    /\ selected_samples = <<<<"A.pdf", "M1">>, <<"A.pdf", "M2">>, <<"B.pdf", "M1">>>>
    /\ ~Reconstructable(<<"A.pdf", "M2">>)
    /\ Len(result_rows) = 2
    /\ result_rows[1].SampleID = Txt("A.pdf - M1")
    /\ result_rows[2].SampleID = Txt("B.pdf - M1")
    /\ ZnTarget("A.pdf") = "Zn"
    /\ ZnTarget("B.pdf") = "pH"
    /\ matrices["A.pdf - M1"][<<"Zn", "Akkerbouw">>] = 0
    /\ matrices["A.pdf - M1"][<<"pH", "Akkerbouw">>] = MISSING
    /\ matrices["B.pdf - M1"][<<"pH", "Akkerbouw">>] = 0
    /\ matrices["B.pdf - M1"][<<"Zn", "Akkerbouw">>] = MISSING

(***************************************************************************)
(* The local mapping store: update_parameter_mapping called from the       *)
(* Parameter Configuratie page, and the page resolving a property on its   *)
(* next run.                                                               *)
(***************************************************************************)
MaxUpdates == 2

StoreUsers == {"u1", "u2"}
StorePdfs == {"A.pdf", "B.pdf"}

\* source_param arguments: empty, "Zn" and "Zn (%)".
SourceParams == {<<>>, <<"Z", "n">>, <<"Z", "n", " ", "(", "%", ")">>}

\* target_eigenschap arguments.
TargetArgs == {"", "RESET", "pH", "Zn"}

\* The rows of parameter_mappings other than the row of a key.
OtherMappings(table, user_id, pdf_id, source_param) ==
    LET other(r) == ~(/\ r.user_id = user_id
                      /\ r.pdf_id = pdf_id
                      /\ r.source_param = source_param)
    IN  SelectSeq(table, other)

\* Mutant of update_parameter_mapping: the row inserted next to the row
\* the key already has.
update_parameter_mapping_keep_old(table, user_id, pdf_id, source_param, target_eigenschap) ==
    IF source_param = <<>> \/ target_eigenschap = "" THEN table
    ELSE IF target_eigenschap = "RESET"
    THEN OtherMappings(table, user_id, pdf_id, source_param)
    ELSE Append(table,
                [user_id |-> user_id, pdf_id |-> pdf_id,
                 source_param |-> source_param,
                 target_eigenschap |-> target_eigenschap])

\* update_parameter_mapping: nothing on an empty argument; RESET deletes
\* the row of the key; else INSERT OR REPLACE, which deletes the row the
\* primary key (user_id, pdf_id, source_param) conflicts with and inserts
\* the new row.
update_parameter_mapping(table, user_id, pdf_id, source_param, target_eigenschap) ==
    IF source_param = <<>> \/ target_eigenschap = "" THEN table
    ELSE IF target_eigenschap = "RESET"
    THEN OtherMappings(table, user_id, pdf_id, source_param)
    ELSE Append(OtherMappings(table, user_id, pdf_id, source_param),
                [user_id |-> user_id, pdf_id |-> pdf_id,
                 source_param |-> source_param,
                 target_eigenschap |-> target_eigenschap])

\* The global table as _migrate_legacy_mappings leaves it: no entry for
\* the properties of the model, or "Zn (%)" for Zn.
GlobalTables ==
    {<<>>, <<[source_param |-> <<"Z", "n", " ", "(", "%", ")">>,
              target_eigenschap |-> "Zn"]>>}

\* The local table when the page opens: empty, or "Zn (%)" saved for Zn in
\* report A by an earlier run.
StoredMappings == {<<>>, <<LocalEntryA>>}

InitMappings ==
    /\ pc = "store"
    /\ extracted_samples = <<>>
    /\ parameter_mappings \in StoredMappings
    /\ global_parameter_mappings \in GlobalTables
    /\ store_calls = <<>>
    /\ ResolveIdle /\ CbcIdle /\ WideIdle /\ AnalyseIdle /\ RetryIdle

\* One call of update_parameter_mapping.
UpdateParameterMapping ==
    /\ pc = "store"
    /\ Len(store_calls) < MaxUpdates
    /\ \E user_id \in StoreUsers, pdf_id \in StorePdfs,
          source_param \in SourceParams, target_eigenschap \in TargetArgs :
          /\ parameter_mappings' = update_parameter_mapping(parameter_mappings,
                 user_id, pdf_id, source_param, target_eigenschap)
          /\ store_calls' = Append(store_calls,
                 [user_id |-> user_id, pdf_id |-> pdf_id,
                  source_param |-> source_param,
                  target_eigenschap |-> target_eigenschap])
    /\ UNCHANGED <<pc, extracted_samples, global_parameter_mappings>>
    /\ UNCHANGED <<cbcVars, resolveVars, wideVars, analyseVars, retryVars>>

\* The next run of the page of the user and report of the last call: the
\* dicts are read from the store and a property is resolved; every source
\* that can be saved is a parameter of the report.
ResolveStored ==
    /\ pc = "store"
    /\ store_calls # <<>>
    /\ \E name \in {"pH", "Zn"} :
          LET last == store_calls[Len(store_calls)]
              lmap == get_local_mappings(parameter_mappings, last.user_id, last.pdf_id)
              gmap == get_global_mappings(global_parameter_mappings)
              available == {Join(sp) : sp \in SourceParams \ {<<>>}}
          IN  /\ target_name' = name
              /\ local_map' = lmap
              /\ global_map' = gmap
              /\ available_set' = available
              /\ best' = get_best_source_for_target(name, lmap, gmap, available)
    /\ pc' = "resolved"
    /\ UNCHANGED <<cbcVars, wideVars, storeVars, analyseVars, retryVars>>

NextMappings == UpdateParameterMapping \/ ResolveStored

SpecMappings == InitMappings /\ [][NextMappings]_vars

\* A call that saves a target (not a reset, no empty argument).
IsSave(c) == c.source_param # <<>> /\ c.target_eigenschap \notin {"", "RESET"}

\* C25 as stated: after source A and then source B were saved for the same
\* property in the same user and report, resolving the property returns B,
\* the last one saved.
C25_LastWriteWins ==
    (/\ pc = "resolved"
     /\ Len(store_calls) = 2
     /\ IsSave(store_calls[1]) /\ IsSave(store_calls[2])
     /\ store_calls[1].user_id = store_calls[2].user_id
     /\ store_calls[1].pdf_id = store_calls[2].pdf_id
     /\ store_calls[1].target_eigenschap = store_calls[2].target_eigenschap
     /\ target_name = store_calls[2].target_eigenschap)
    => best = <<Txt(Join(store_calls[2].source_param)), "Manual">>

\* The last call made, after a step that made one.
LastCall == store_calls'[Len(store_calls')]

\* The rows of a table of local mappings under the key of a call.
RowsOfKey(table, c) ==
    {k \in 1..Len(table) : /\ table[k].user_id = c.user_id
                           /\ table[k].pdf_id = c.pdf_id
                           /\ table[k].source_param = c.source_param}

\* C26: for a user, a report and a source there is at most one target at
\* any time; saving a source replaces the target it has, "RESET" removes
\* the entry, and a call with an empty source or an empty target changes
\* nothing.
C26_OneTargetPerSource ==
    [][Len(store_calls') = Len(store_calls) + 1 =>
          /\ \A a, b \in 1..Len(parameter_mappings') :
                 (/\ parameter_mappings'[a].user_id = parameter_mappings'[b].user_id
                  /\ parameter_mappings'[a].pdf_id = parameter_mappings'[b].pdf_id
                  /\ parameter_mappings'[a].source_param
                         = parameter_mappings'[b].source_param) => a = b
          /\ IF LastCall.source_param = <<>> \/ LastCall.target_eigenschap = ""
             THEN parameter_mappings' = parameter_mappings
             ELSE IF LastCall.target_eigenschap = "RESET"
             THEN RowsOfKey(parameter_mappings', LastCall) = {}
             ELSE \E k \in 1..Len(parameter_mappings') :
                      /\ RowsOfKey(parameter_mappings', LastCall) = {k}
                      /\ parameter_mappings'[k].target_eigenschap
                             = LastCall.target_eigenschap]_vars

\* A source saved for pH and then for Zn: one row, with Zn.
C26_Witness ==
    /\ Len(store_calls) = 2
    /\ IsSave(store_calls[1]) /\ IsSave(store_calls[2])
    /\ store_calls[1].user_id = store_calls[2].user_id
    /\ store_calls[1].pdf_id = store_calls[2].pdf_id
    /\ store_calls[1].source_param = store_calls[2].source_param
    /\ store_calls[1].target_eigenschap = "pH"
    /\ store_calls[2].target_eigenschap = "Zn"
    /\ Len(parameter_mappings) = 1
    /\ parameter_mappings[1].target_eigenschap = "Zn"

\* C27 as stated: a call of update_parameter_mapping, a save or a reset,
\* leaves the global mappings and the local entries of every other user,
\* report and source as they were, and after a source was saved for a
\* property and reset, the property resolves to what the global mappings
\* give for it.
C27_OnlyTheLocalEntryChanges ==
    /\ [][Len(store_calls') = Len(store_calls) + 1 =>
             /\ global_parameter_mappings' = global_parameter_mappings
             /\ OtherMappings(parameter_mappings', LastCall.user_id,
                              LastCall.pdf_id, LastCall.source_param)
                    = OtherMappings(parameter_mappings, LastCall.user_id,
                                    LastCall.pdf_id, LastCall.source_param)]_vars
    /\ []((/\ pc = "resolved"
           /\ Len(store_calls) = 2
           /\ IsSave(store_calls[1])
           /\ store_calls[2] = [store_calls[1] EXCEPT !.target_eigenschap = "RESET"]
           /\ target_name = store_calls[1].target_eigenschap)
          => best = IF \E k \in 1..Len(global_parameter_mappings) :
                           global_parameter_mappings[k].target_eigenschap = target_name
                    THEN <<Txt("Zn (%)"), "Global">>
                    ELSE <<None, "None">>)

(***************************************************************************)
(* save_extraction_results: the long-form results of a report written to   *)
(* extracted_samples.                                                      *)
(***************************************************************************)
MaxSaves == 2
MaxResultRows == 2

\* A row of the results frame: sample_id, parameter, unit (None or NaN is
\* stored as NULL) and value.
ResultRows ==
    [sample_id : {"M1"},
     parameter : {SqlText(<<"p", "H">>), SqlText(<<"Z", "n">>)},
     unit : {SqlNull, SqlText(<<"%">>)},
     value : {SqlText(<<"7", ",", "1">>), SqlText(<<"7", ",", "2">>)}]

\* The results frames: with the columns sample_id, parameter, unit and
\* value and up to MaxResultRows rows, or without the column value.
ResultFrames ==
    {[has_value |-> TRUE, rows |-> rs] : rs \in SeqsUpTo(ResultRows, MaxResultRows)}
        \cup {[has_value |-> FALSE, rows |-> <<[sample_id |-> "M1",
                                               parameter |-> SqlText(<<"p", "H">>),
                                               unit |-> SqlNull,
                                               value |-> SqlNull]>>]}

\* A stored row conflicts with a new row on the primary key (user_id,
\* pdf_id, sample_id, parameter, unit) when all five are equal; a NULL
\* unit is equal to nothing in a unique index, itself included.
KeyConflict(r, new) ==
    /\ r.user_id = new.user_id
    /\ r.pdf_id = new.pdf_id
    /\ r.sample_id = new.sample_id
    /\ r.parameter = new.parameter
    /\ ~new.unit.null
    /\ r.unit = new.unit

\* INSERT OR REPLACE INTO extracted_samples: the rows in conflict are
\* deleted and the new row is inserted.
InsertOrReplace(table, new) ==
    LET keep(r) == ~KeyConflict(r, new)
    IN  Append(SelectSeq(table, keep), new)

RECURSIVE SaveRows(_, _, _, _, _)
\* for _, row in results.iterrows(): ... conn.execute(INSERT OR REPLACE)
SaveRows(table, user_id, pdf_id, rows, i) ==
    IF i > Len(rows) THEN table
    ELSE SaveRows(InsertOrReplace(table,
                      [user_id |-> user_id, pdf_id |-> pdf_id,
                       sample_id |-> rows[i].sample_id,
                       parameter |-> rows[i].parameter,
                       unit |-> rows[i].unit,
                       value |-> rows[i].value]),
                  user_id, pdf_id, rows, i + 1)

\* save_extraction_results: what it raises and the table it leaves.
save_extraction_results(table, user_id, pdf_id, results) ==
    IF Len(results.rows) = 0 THEN [exc |-> "", table |-> table]
    ELSE IF ~results.has_value THEN [exc |-> "ValueError", table |-> table]
    ELSE [exc |-> "", table |-> SaveRows(table, user_id, pdf_id, results.rows, 1)]

InitSave ==
    /\ pc = "store"
    /\ extracted_samples = <<>>
    /\ parameter_mappings = <<>>
    /\ global_parameter_mappings = <<>>
    /\ store_calls = <<>>
    /\ ResolveIdle /\ CbcIdle /\ WideIdle /\ AnalyseIdle /\ RetryIdle

\* One call of save_extraction_results for a report of the user.
SaveExtractionResults ==
    /\ pc = "store"
    /\ Len(store_calls) < MaxSaves
    /\ \E pdf_id \in {"A.pdf"}, results \in ResultFrames :
          LET saved == save_extraction_results(extracted_samples, AnalyseUser,
                                               pdf_id, results)
          IN  /\ extracted_samples' = saved.table
              /\ pc' = IF saved.exc = "" THEN "store" ELSE "raised"
              /\ store_calls' = Append(store_calls,
                     [user_id |-> AnalyseUser, pdf_id |-> pdf_id,
                      results |-> results])
    /\ UNCHANGED <<parameter_mappings, global_parameter_mappings>>
    /\ UNCHANGED <<cbcVars, resolveVars, wideVars, analyseVars, retryVars>>

NextSave == SaveExtractionResults

SpecSave == InitSave /\ [][NextSave]_vars

\* The rows saved by the calls so far, in the order saved.
RECURSIVE SavedRows(_)
SavedRows(n) ==
    IF n = 0 THEN <<>>
    ELSE SavedRows(n - 1) \o
         (IF store_calls[n].results.has_value THEN store_calls[n].results.rows
          ELSE <<>>)

\* Two rows have the same (sample, parameter, unit), a null unit being a
\* unit like another (user and report are the same in every call).
SameSampleKey(r1, r2) ==
    /\ r1.sample_id = r2.sample_id
    /\ r1.parameter = r2.parameter
    /\ r1.unit = r2.unit

\* C29 as stated: after any sequence of saves the table holds at most one
\* row per (user, report, sample, parameter, unit), a null unit included,
\* and that row carries the value saved last for the key; saving the same
\* results twice leaves the rows that saving them once leaves.
C29_OneRowPerKeyLastValue ==
    LET saved == SavedRows(Len(store_calls))
    IN  /\ \A a, b \in 1..Len(extracted_samples) :
               SameSampleKey(extracted_samples[a], extracted_samples[b]) => a = b
        /\ \A a \in 1..Len(extracted_samples) :
               LET same == {k \in 1..Len(saved) :
                               SameSampleKey(saved[k], extracted_samples[a])}
               IN  /\ same # {}
                   /\ extracted_samples[a].value = saved[Highest(same)].value
        /\ (/\ Len(store_calls) = 2
            /\ store_calls[1] = store_calls[2])
           => Range(extracted_samples) =
                  Range(save_extraction_results(<<>>, store_calls[1].user_id,
                            store_calls[1].pdf_id, store_calls[1].results).table)

(***************************************************************************)
(* generate_with_retry of smart_parser_two_pass.py.                        *)
(***************************************************************************)
MaxRetries == 3

\* The texts of the errors the call of the model raises: str(e).
Error429 == <<"4", "2", "9">>
ErrorCode429 == <<"c", "o", "d", "e", " ", "4", "2", "9">>
ErrorExhausted == <<"R", "E", "S", "O", "U", "R", "C", "E", "_", "E", "X", "H", "A", "U", "S", "T", "E", "D">>
Error500 == <<"5", "0", "0">>
Error42_9 == <<"4", "2", " ", "9">>
ErrorTexts == {Error429, ErrorCode429, ErrorExhausted, Error500, Error42_9}

\* How a call of client.models.generate_content ends: it returns a
\* response or raises an error.
CallEnds ==
    {[ok |-> TRUE, response |-> r, error |-> <<>>] : r \in {"r1", "r2"}}
        \cup {[ok |-> FALSE, response |-> "", error |-> e] : e \in ErrorTexts}

\* needle in hay, for texts.
Contains(hay, needle) ==
    \E i \in 1..(Len(hay) - Len(needle) + 1) :
        SubSeq(hay, i, i + Len(needle) - 1) = needle

\* "429" in error_str or "RESOURCE_EXHAUSTED" in error_str
IsQuotaError(error_str) ==
    Contains(error_str, Error429) \/ Contains(error_str, ErrorExhausted)

RECURSIVE Pow2(_)
Pow2(n) == IF n = 0 THEN 1 ELSE 2 * Pow2(n - 1)

\* Mutant of wait_time: the wait grows by base_delay on each attempt.
wait_time_linear(delay, n) == delay * (n + 1)

\* wait_time = base_delay * (2 ** attempt)
wait_time(delay, n) == delay * Pow2(n)

InitRetry ==
    /\ pc = "retrying"
    /\ retries \in 0..MaxRetries
    /\ base_delay \in {1, 5}
    /\ attempt = 0
    /\ calls = <<>>
    /\ slept = <<>>
    /\ outcome = [kind |-> "", response |-> "", error |-> <<>>]
    /\ ResolveIdle /\ CbcIdle /\ WideIdle /\ StoreIdle /\ AnalyseIdle

\* One turn of `for attempt in range(retries)`: the call of the model, and
\* what follows it: the return of the response, the wait after a quota
\* error, or the raise of another error.
Attempt ==
    /\ pc = "retrying"
    /\ attempt < retries
    /\ \E end \in CallEnds :
          /\ calls' = Append(calls, end)
          /\ IF end.ok
             THEN /\ outcome' = [kind |-> "returned", response |-> end.response,
                                 error |-> <<>>]
                  /\ pc' = "done"
                  /\ UNCHANGED <<attempt, slept>>
             ELSE IF IsQuotaError(end.error)
             THEN /\ slept' = Append(slept, wait_time(base_delay, attempt))
                  /\ attempt' = attempt + 1
                  /\ UNCHANGED <<pc, outcome>>
             ELSE /\ outcome' = [kind |-> "raised", response |-> "",
                                 error |-> end.error]
                  /\ pc' = "done"
                  /\ UNCHANGED <<attempt, slept>>
    /\ UNCHANGED <<retries, base_delay>>
    /\ UNCHANGED <<cbcVars, resolveVars, wideVars, storeVars, analyseVars>>

\* The loop is over: raise Exception("Max retries exceeded for Gemini API.")
RaiseMaxRetries ==
    /\ pc = "retrying"
    /\ attempt >= retries
    /\ outcome' = [kind |-> "raised max", response |-> "", error |-> <<>>]
    /\ pc' = "done"
    /\ UNCHANGED <<retries, base_delay, attempt, calls, slept>>
    /\ UNCHANGED <<cbcVars, resolveVars, wideVars, storeVars, analyseVars>>

NextRetry == Attempt \/ RaiseMaxRetries

SpecRetry == InitRetry /\ [][NextRetry]_vars

\* The function runs on: a call of the model ends, a sleep ends, and the
\* statement after it is executed.
SpecRetryFair == SpecRetry /\ WF_vars(NextRetry)

\* The error texts that name a quota error.
QuotaTexts == {Error429, ErrorCode429, ErrorExhausted}

\* C30: generate_with_retry ends, after at most `retries` calls of the
\* model.  Every call but the last raised a quota error and was followed
\* by a wait of base_delay * 2^attempt, base_delay first and doubling.  It
\* returns the response of the first call that succeeds, raises the first
\* error that is no quota error without a further call, and raises "Max
\* retries exceeded" when all `retries` calls raised a quota error.
C30_EndsWithinRetries ==
    /\ <>(pc = "done")
    /\ [][pc = "done" => calls' = calls]_vars
    /\ [](LET n == Len(calls)
              quota(k) == ~calls[k].ok /\ calls[k].error \in QuotaTexts
          IN  /\ n <= retries
              /\ \A k \in 1..(n - 1) : quota(k)
              /\ Len(slept) = Cardinality({k \in 1..n : quota(k)})
              /\ \A k \in 1..Len(slept) :
                     /\ slept[k] = IF k = 1 THEN base_delay ELSE 2 * slept[k - 1]
                     /\ slept[k] = base_delay * (2 ^ (k - 1))
              /\ pc = "done" <=> outcome.kind # ""
              /\ outcome.kind = "returned" =>
                     /\ n > 0 /\ calls[n].ok
                     /\ outcome.response = calls[n].response
              /\ outcome.kind = "raised" =>
                     /\ n > 0 /\ ~calls[n].ok /\ ~quota(n)
                     /\ outcome.error = calls[n].error
              /\ outcome.kind = "raised max" =>
                     /\ n = retries
                     /\ \A k \in 1..n : quota(k)
              /\ (pc = "done" /\ n > 0) =>
                     \/ outcome.kind = "returned" /\ calls[n].ok
                     \/ outcome.kind = "raised" /\ ~calls[n].ok /\ ~quota(n)
                     \/ outcome.kind = "raised max" /\ quota(n))

\* Three tries allowed, two quota errors and then a response: it is
\* returned after waits of 5 and 10 seconds.
C30_Witness ==
    /\ pc = "done"
    /\ retries = 3
    /\ base_delay = 5
    /\ Len(calls) = 3
    /\ calls[1].error = Error429
    /\ calls[2].error = ErrorExhausted
    /\ calls[3].ok
    /\ slept = <<5, 10>>
    /\ outcome = [kind |-> "returned", response |-> calls[3].response, error |-> <<>>]

====
